---- MODULE Spec2Model ----
(***************************************************************************)
(* gbroadcast: session (token lifecycle, login, logout, refresh) and the   *)
(* authenticated fetch, modelled from src/src/context/AuthContext.tsx,     *)
(* src/unnamed/part_000 (tokenUtils), src/src/utils/secureStorage.ts and   *)
(* src/unnamed/part_004 (LoginPage).                                       *)
(*                                                                         *)
(* Time is Date.now() in milliseconds; the clock advances in steps of five *)
(* minutes.  A JavaScript null/undefined value is the record Null, an      *)
(* absent string is "".                                                    *)
(***************************************************************************)
EXTENDS Integers, Sequences, FiniteSets, TLC

(* ---- bounds ---- *)
MaxTicks == 1
MaxRequests == 1
MaxConcurrent == 3
MaxSyncTicks == 4
MaxServerPages == 101
SettleDepth == 3
MaxQuota == 6
MaxTokenTicks == 2
MaxContacts == 3
MaxMemberships == 2

(* ---- program constants ---- *)
FiveMinutes == 5 * 60 * 1000
expirationBuffer == 5 * 60 * 1000
MinClientIdLength == 10
SYNC_INTERVAL == 1800000
SYNC_ERROR_BACKOFF == 900000
maxPages == 100

Null == [present |-> FALSE]

\* F applied to the value of v0: the argument of a handler is a value that
\* was computed once, however often the handler reads it
Once(v0, F(_)) == CHOOSE result \in { F(v) : v \in {v0} } : TRUE

(* ---- input domains ---- *)
Alice == [present |-> TRUE, id |-> "1", email |-> "alice@example.com"]
Bob == [present |-> TRUE, id |-> "2", email |-> "bob@example.com"]
NoEmailUser == [present |-> TRUE, id |-> "3", email |-> ""]
UserInputs == {Alice, Bob, NoEmailUser, Null}
AccessTokens == {"opaque-A", "jwt-B"}
TokenInputs == AccessTokens \cup {""}
ClientIdLengths == {0, 10, 11}
Statuses == {200, 401, 403, 429, 500}
ErrorTexts ==
    { <<"Popup", "window", "closed">>, <<"request", "BLOCKED">>,
      <<"invalid_client">>, <<"popup", "invalid_client">>, <<"[object", "Object]">> }

ThrownTexts == { <<"Popup", "window", "closed">>, <<"[object", "Object]">> }

\* the time at which the contacts page is first opened
SyncEpoch == 8 * FiveMinutes
\* what an earlier sync has left in the cache
OldContacts ==
    << [resourceName |-> 90, emailAddresses |-> << "old@example.com" >>,
         updatedAt |-> FiveMinutes] >>
OldGroups == { [resourceName |-> "contactGroups/g0", name |-> "Family"] }

(* ---- messages ---- *)
NoError == ""
MsgMissingToken == "Authentication failed: Missing access token"
MsgMissingUser == "Authentication failed: Missing user information"
MsgConfigMissing == "Google configuration is missing. Please set up your Google API credentials."
MsgClientIdNotConfigured == "Google Client ID is not configured. Please set up your Google API credentials."
MsgPopupBlocked == "The login popup was blocked by your browser. Please allow popups for this website and try again."
MsgInvalidClient == "Invalid OAuth Client ID. Please check your Google API configuration."
MsgAuthFailed == "Authentication failed. Please try logging in again."
MsgRefreshFailed == "Failed to refresh authentication. Please try logging in again."
MsgNotAuthenticated == "Not authenticated"
MsgSessionExpired == "Session expired. Please log in again."
MsgForbidden == "You do not have permission to access this resource. Check your Google account permissions."
MsgTooManyRequests == "Too many requests. Please try again later."
MsgRequestFailed == "Request failed with status"
MsgTimedOut == "Request timed out. Please try again."
MsgLoginPageNoClientId == "Google Client ID is not configured. Please set the VITE_GOOGLE_CLIENT_ID environment variable."
MsgLoginFailed == "Failed to login with Google. Please try again."

VARIABLES
    clientIdLength,   \* length of VITE_GOOGLE_CLIENT_ID (0 = not set)
    now,              \* Date.now()
    storageFails,     \* every localStorage call throws
    phase,            \* AuthProvider: "constructed", "mounted", "unmounted"
    localStorage,     \* key -> raw entry
    authState,        \* [user, tokens, isAuthenticated]
    effectAuthState,  \* authState captured by the closures of the mount effect
    authError,
    refreshing,
    refreshingRef,
    mountedRef,
    popups,           \* refresh popups in flight, each named by the caller that opened it
    route,            \* current location
    calls,            \* handlers entered during the last step, in order
    uncaught,         \* an exception escaped a session handler in the last step
    loginPage,        \* LoginPage instance: [mounted, isLoading, error, popup]
    api,              \* useSecureApi instance
    hook,             \* useContactsStorage instance
    server,           \* the People API server the requests reach
    last              \* the last step: [op, pre, ...]

vars == << clientIdLength, now, storageFails, phase, localStorage, authState,
           effectAuthState, authError, refreshing, refreshingRef, mountedRef,
           popups, route, calls, uncaught, loginPage, api, hook, server, last >>

\* mutant: a client id of exactly 10 characters passes
hasValidConfig_atLeast == clientIdLength >= MinClientIdLength

hasValidConfig == clientIdLength > MinClientIdLength

(* ======================= secureStorage.ts ======================= *)
Absent == [fmt |-> "absent", data |-> Null]
Enc(v) == [fmt |-> "enc", data |-> v]
Json(v) == [fmt |-> "json", data |-> v]
Garbage == [fmt |-> "garbage", data |-> Null]

\* a quota of the storage area that no write of the model reaches
AmpleQuota == 1000

\* encryptData: a falsy value encrypts to '', anything else to ciphertext
encryptData(value) == IF value = Null THEN Absent ELSE Enc(value)

\* decryptData: only ciphertext made by encryptData decodes
decryptData(entry) == IF entry.fmt = "enc" THEN entry.data ELSE Null

\* the keys of the origin's storage area that the program uses
StorageKeys ==
    { "user", "auth_tokens", "google_contacts", "google_contact_groups",
      "google_contacts_metadata", "user_pref_last_sync" }

\* the length of JSON.stringify(value), in units of one small record
Weight(value) ==
    IF "list" \in DOMAIN value THEN 1 + Len(value.list) ELSE 1

\* the length of the stored text: ciphertext is longer than the JSON text
Size(entry) ==
    CASE entry.fmt = "absent" -> 0
      [] entry.fmt = "enc" -> 2 * Weight(entry.data)
      [] entry.fmt = "json" -> Weight(entry.data)
      [] OTHER -> 1

RECURSIVE SumSizes(_, _)
SumSizes(ls, keys) ==
    IF keys = {} THEN 0
    ELSE LET key == CHOOSE k \in keys : TRUE
         IN  Size(ls[key]) + SumSizes(ls, keys \ {key})

Used(ls_in) ==
    Once(ls_in, LAMBDA ls :
    SumSizes(ls, StorageKeys))

\* localStorage.setItem: [ls, threw]; throws QuotaExceededError ("quota")
\* when the new text does not fit, and whatever a disabled storage throws
\* ("error"); a failed call leaves the old entry
localStorage_setItem(ls_in, key, entry) ==
    Once(ls_in, LAMBDA ls :
    IF storageFails THEN [ls |-> ls, threw |-> "error"]
    ELSE IF Used([ls EXCEPT ![key] = Absent]) + Size(entry) > ls.quota
    THEN [ls |-> ls, threw |-> "quota"]
    ELSE [ls |-> [ls EXCEPT ![key] = entry], threw |-> "none"])

\* directStorage.getItem: JSON.parse of the raw text, null when it throws
directStorage_getItem(ls, key) ==
    IF storageFails THEN Null
    ELSE IF ls[key].fmt = "json" THEN ls[key].data ELSE Null

\* directStorage.setItem: own try/catch, never throws
directStorage_setItem(ls, key, value) ==
    localStorage_setItem(ls, key, Json(value)).ls

\* localStorage.removeItem: [ls, threw]
localStorage_removeItem(ls_in, key) ==
    Once(ls_in, LAMBDA ls :
    IF storageFails THEN [ls |-> ls, threw |-> TRUE]
    ELSE [ls |-> [ls EXCEPT ![key] = Absent], threw |-> FALSE])

\* secureStorage.clearContactsData: each removal has its own try/catch
secureStorage_clearContactsData(ls) ==
    localStorage_removeItem(
        localStorage_removeItem(
            localStorage_removeItem(ls, "google_contacts").ls,
            "google_contact_groups").ls,
        "google_contacts_metadata").ls

\* secureStorage.setItem: encrypted write, verified; in the catch block the
\* direct JSON write, and after it clearContactsData when the error was a
\* quota error
setItem_catch(direct_in, threw) ==
    Once(direct_in, LAMBDA direct :
    IF threw = "quota" THEN secureStorage_clearContactsData(direct) ELSE direct)

\* r is the outcome of the encrypted write; a write that threw left the
\* storage area as it was
setItem_verified(r_in, key, value, encrypted) ==
    Once(r_in, LAMBDA r :
    IF r.threw = "none" /\ encrypted # Absent THEN r.ls
    ELSE setItem_catch(directStorage_setItem(r.ls, key, value), r.threw))

secureStorage_setItem(ls_in, key, value) ==
    Once(ls_in, LAMBDA ls :
    setItem_verified(localStorage_setItem(ls, key, encryptData(value)),
                     key, value, encryptData(value)))

\* secureStorage.getItem: decrypt, else direct JSON, else null
secureStorage_getItem(ls_in, key) ==
    Once(ls_in, LAMBDA ls :
    IF storageFails THEN directStorage_getItem(ls, key)
    ELSE IF ls[key].fmt = "absent" THEN Null
    ELSE IF decryptData(ls[key]) = Null THEN directStorage_getItem(ls, key)
    ELSE decryptData(ls[key]))

\* mutant: the catch block rethrows
Swallowed_rethrown(threw) == threw

\* try { ... } catch (e) { console.error(...) }: whether the exception of the
\* try block (threw) reaches the caller
Swallowed(threw) == FALSE

\* secureStorage.removeItem: the error of localStorage.removeItem is swallowed
removeItem_caught(r_in) ==
    Once(r_in, LAMBDA r :
    [ls |-> r.ls, threw |-> Swallowed(r.threw)])

secureStorage_removeItem(ls, key) == removeItem_caught(localStorage_removeItem(ls, key))

\* whether each operation of the store throws to its caller
directStorage_setItem_throws(ls, key, value) ==
    Swallowed(localStorage_setItem(ls, key, Json(value)).threw # "none")

directStorage_getItem_throws(ls, key) == Swallowed(storageFails)

clearContactsData_throws(ls) ==
    \E key \in {"google_contacts", "google_contact_groups", "google_contacts_metadata"} :
        Swallowed(localStorage_removeItem(ls, key).threw)

\* the catch block of setItem: the direct write and the clear are each in a
\* try block of their own
secureStorage_setItem_throws(ls, key, value) ==
    LET r == localStorage_setItem(ls, key, encryptData(value))
        failed == r.threw # "none" \/ encryptData(value) = Absent
    IN  /\ failed
        /\ \/ Swallowed(directStorage_setItem_throws(r.ls, key, value))
           \/ (r.threw = "quota" /\ Swallowed(clearContactsData_throws(r.ls)))

\* the catch blocks of getItem: the removal after a failed direct read is
\* not in a try block
secureStorage_getItem_throws(ls, key) ==
    /\ storageFails
    /\ directStorage_getItem_throws(ls, key)
    /\ localStorage_removeItem(ls, key).threw

(* ======================= tokenUtils (part_000) ======================= *)
\* jwt-decode on the tokens of the model: "jwt-B" carries exp = 600 s,
\* "jwt-zero" exp = 0, "jwt-none" decodes and carries no exp claim, every
\* other text (the empty one too) makes jwtDecode throw
jwtDecode(token) ==
    IF token = "jwt-B" THEN [ok |-> TRUE, hasExp |-> TRUE, exp |-> 600]
    ELSE IF token = "jwt-zero" THEN [ok |-> TRUE, hasExp |-> TRUE, exp |-> 0]
    ELSE IF token = "jwt-none" THEN [ok |-> TRUE, hasExp |-> FALSE, exp |-> 0]
    ELSE [ok |-> FALSE, hasExp |-> FALSE, exp |-> 0]

\* `if (decoded.exp)`: an absent claim and a claim of 0 are both falsy
getTokenExpiration(token) ==
    IF jwtDecode(token).ok /\ jwtDecode(token).hasExp /\ jwtDecode(token).exp # 0
    THEN jwtDecode(token).exp * 1000
    ELSE now + 3600 * 1000

TokenData(token, expiresAt) ==
    [present |-> TRUE, token |-> token, expiresAt |-> expiresAt]

\* mutant: the bundle of the fallback branch is stored
storeTokens_defaultExpiry(ls, token) ==
    secureStorage_setItem(ls, "auth_tokens", TokenData(token, now + 3600 * 1000))

\* storeTokens: the try block (its catch is reached only when the Date of
\* the log line is out of range, which no expiration of the model is)
storeTokens(ls, token) ==
    secureStorage_setItem(ls, "auth_tokens",
                          TokenData(token, getTokenExpiration(token)))

\* the bundle that was read, null when it has no token
getStoredTokens_read(tokenData) ==
    IF tokenData = Null \/ tokenData.token = "" THEN Null ELSE tokenData

getStoredTokens(ls) == getStoredTokens_read(secureStorage_getItem(ls, "auth_tokens"))

\* mutant: a token that expires exactly at the end of the buffer is fresh
isTokenExpired_strict(ls, arg) ==
    LET tokenData == IF arg = Null THEN getStoredTokens(ls) ELSE arg
    IN  IF tokenData = Null \/ tokenData.token = "" THEN TRUE
        ELSE now + expirationBuffer > tokenData.expiresAt

\* isTokenExpired from the bundle on
isTokenExpired_of(tokenData_in) ==
    Once(tokenData_in, LAMBDA tokenData :
    IF tokenData = Null \/ tokenData.token = "" THEN TRUE
    ELSE now + expirationBuffer >= tokenData.expiresAt)

\* isTokenExpired(tokenData?): Null stands for the omitted argument
isTokenExpired(ls, arg) ==
    isTokenExpired_of(IF arg = Null THEN getStoredTokens(ls) ELSE arg)

\* clearTokens: [ls, threw]; the fallback runs only if removeItem throws
clearTokens_removed(ls_in, r_in) ==
    Once(ls_in, LAMBDA ls :
    Once(r_in, LAMBDA r :
    IF r.threw
    THEN [ls |-> localStorage_removeItem(ls, "auth_tokens").ls, threw |-> FALSE]
    ELSE r))

clearTokens(ls) == clearTokens_removed(ls, secureStorage_removeItem(ls, "auth_tokens"))

(* ======================= AuthContext.tsx: AuthProvider ======================= *)
Unauthenticated == [user |-> Null, tokens |-> Null, isAuthenticated |-> FALSE]

AuthTokens(access_token, expires_at) ==
    [present |-> TRUE, access_token |-> access_token, expires_at |-> expires_at]

\* The session handlers are operators on the record of everything they can
\* change; an action applies them to Cur and commits the result.
Cur ==
    [ ls |-> localStorage, authState |-> authState, authError |-> authError,
      refreshing |-> refreshing, refreshingRef |-> refreshingRef,
      popups |-> popups, route |-> route, calls |-> << >>, uncaught |-> FALSE ]

Enter(s_in, name) ==
    Once(s_in, LAMBDA s :
    [s EXCEPT !.calls = Append(@, name)])

toLowerCase(word) ==
    CASE word = "Popup" -> "popup"
      [] word = "BLOCKED" -> "blocked"
      [] OTHER -> word

\* errorMessage.toLowerCase().includes(word), a message being a sequence of words
includes(message, word) ==
    \E i \in 1..Len(message) : toLowerCase(message[i]) = word

clearAuthError(s) ==
    IF mountedRef THEN [s EXCEPT !.authError = NoError] ELSE s

\* mutant: the session is set but nothing is persisted
login_stateOnly(s0, accessToken, userData) ==
    LET s == Enter(s0, "login")
    IN  IF accessToken = ""
        THEN IF mountedRef THEN [s EXCEPT !.authError = MsgMissingToken] ELSE s
        ELSE IF userData = Null \/ userData.email = ""
        THEN IF mountedRef THEN [s EXCEPT !.authError = MsgMissingUser] ELSE s
        ELSE IF mountedRef
        THEN clearAuthError(
               [s EXCEPT !.authState =
                             [user |-> userData,
                              tokens |-> AuthTokens(accessToken, now + 3600 * 1000),
                              isAuthenticated |-> TRUE],
                         !.route = "/"])
        ELSE [s EXCEPT !.route = "/"]

\* mutant: the arguments are not validated
login_noValidation(s0, accessToken, userData) ==
    LET s == Enter(s0, "login")
        stored == storeTokens(secureStorage_setItem(s.ls, "user", userData), accessToken)
    IN  IF mountedRef
        THEN clearAuthError(
               [s EXCEPT !.ls = stored,
                         !.authState =
                             [user |-> userData,
                              tokens |-> AuthTokens(accessToken, now + 3600 * 1000),
                              isAuthenticated |-> TRUE],
                         !.route = "/"])
        ELSE [s EXCEPT !.ls = stored, !.route = "/"]

login(s0, accessToken, userData) ==
    LET s == Enter(s0, "login")
    IN  IF accessToken = ""
        THEN IF mountedRef THEN [s EXCEPT !.authError = MsgMissingToken] ELSE s
        ELSE IF userData = Null \/ userData.email = ""
        THEN IF mountedRef THEN [s EXCEPT !.authError = MsgMissingUser] ELSE s
        ELSE LET stored == storeTokens(secureStorage_setItem(s.ls, "user", userData),
                                       accessToken)
             IN  IF mountedRef
                 THEN clearAuthError(
                        [s EXCEPT !.ls = stored,
                                  !.authState =
                                      [user |-> userData,
                                       tokens |-> AuthTokens(accessToken, now + 3600 * 1000),
                                       isAuthenticated |-> TRUE],
                                  !.route = "/"])
                 ELSE [s EXCEPT !.ls = stored, !.route = "/"]

\* mutant: storage is cleared but the state is not reset
logout_keepsState(s0) ==
    LET s == Enter(s0, "logout")
        r1 == secureStorage_removeItem(s.ls, "user")
        r2 == clearTokens(r1.ls)
    IN  [s EXCEPT !.ls = r2.ls, !.route = "/login"]

\* mutant: the tokens are dropped from the state but the user is kept
logout_removed_keepsUser(s, r1, r2) ==
    IF r1.threw THEN [s EXCEPT !.ls = r1.ls, !.route = "/login"]
    ELSE IF r2.threw THEN [s EXCEPT !.ls = r2.ls, !.route = "/login"]
    ELSE [s EXCEPT !.ls = r2.ls,
                   !.authState = IF mountedRef
                                 THEN [@ EXCEPT !.tokens = Null, !.isAuthenticated = FALSE]
                                 ELSE @,
                   !.route = "/login"]

\* logout after the removal of the user (r1) and of the tokens (r2)
logout_removed(s_in, r1_in, r2_in) ==
    Once(s_in, LAMBDA s :
    Once(r1_in, LAMBDA r1 :
    Once(r2_in, LAMBDA r2 :
    IF r1.threw THEN [s EXCEPT !.ls = r1.ls, !.route = "/login"]
    ELSE IF r2.threw THEN [s EXCEPT !.ls = r2.ls, !.route = "/login"]
    ELSE [s EXCEPT !.ls = r2.ls,
                   !.authState = IF mountedRef THEN Unauthenticated ELSE @,
                   !.route = "/login"])))

logout_user(s_in, r1_in) ==
    Once(s_in, LAMBDA s :
    Once(r1_in, LAMBDA r1 :
    logout_removed(s, r1, clearTokens(r1.ls))))

logout_try(s) == logout_user(s, secureStorage_removeItem(s.ls, "user"))

logout(s0) == logout_try(Enter(s0, "logout"))

\* googleLogin(): gl.throws says that the call throws gl.text synchronously,
\* otherwise the popup is opened
GoogleLoginInputs ==
    { [throws |-> FALSE, text |-> << >>] }
        \cup { [throws |-> TRUE, text |-> t] : t \in ThrownTexts }

\* mutant: no single-flight guard
refreshAccessToken_noGuard(s0, caller, gl) ==
    LET s == Enter(s0, "refreshAccessToken")
    IN  IF ~hasValidConfig
        THEN IF mountedRef THEN [s EXCEPT !.authError = MsgConfigMissing] ELSE s
        ELSE [s EXCEPT !.refreshingRef = TRUE,
                       !.refreshing = IF mountedRef THEN TRUE ELSE @,
                       !.popups = Append(@, caller)]

refreshAccessToken(s0, caller, gl) ==
    LET s == Enter(s0, "refreshAccessToken")
    IN  IF ~hasValidConfig
        THEN IF mountedRef THEN [s EXCEPT !.authError = MsgConfigMissing] ELSE s
        ELSE IF s.refreshingRef THEN s
        ELSE IF gl.throws
        THEN [s EXCEPT !.refreshingRef = FALSE,
                       !.refreshing = IF mountedRef THEN FALSE ELSE @,
                       !.authError =
                           IF ~mountedRef THEN @
                           ELSE IF includes(gl.text, "popup") \/ includes(gl.text, "blocked")
                                THEN MsgPopupBlocked
                                ELSE MsgRefreshFailed]
        ELSE [s EXCEPT !.refreshingRef = TRUE,
                       !.refreshing = IF mountedRef THEN TRUE ELSE @,
                       !.popups = Append(@, caller)]

\* getAccessToken: [s, token]; token "" is the null result
getAccessToken_refreshed(s1_in) ==
    Once(s1_in, LAMBDA s1 :
    [s |-> IF mountedRef THEN logout(s1) ELSE s1, token |-> ""])

\* mutant: the stored token is returned without the expiry test
getAccessToken_stored_anyAge(s, tokenData, gl) ==
    IF tokenData = Null THEN [s |-> s, token |-> ""]
    ELSE [s |-> s, token |-> tokenData.token]

getAccessToken_stored(s_in, tokenData_in, gl) ==
    Once(s_in, LAMBDA s :
    Once(tokenData_in, LAMBDA tokenData :
    IF tokenData = Null THEN [s |-> s, token |-> ""]
    ELSE IF isTokenExpired(s.ls, Null)
    THEN getAccessToken_refreshed(refreshAccessToken(s, "getAccessToken", gl))
    ELSE [s |-> s, token |-> tokenData.token]))

getAccessToken_try(s, gl) == getAccessToken_stored(s, getStoredTokens(s.ls), gl)

getAccessToken(s0, gl) == getAccessToken_try(Enter(s0, "getAccessToken"), gl)

\* mutant: the callback logs in with the user that is persisted or was last
\* known, whether or not the session still has a user
onSuccess_anyUser(s0, access_token) ==
    LET s == Enter(s0, "onSuccess")
    IN  IF access_token # "" /\ mountedRef
        THEN LET s1 == login(s, access_token,
                             IF s.authState.user # Null THEN s.authState.user ELSE Alice)
             IN  [s1 EXCEPT !.refreshing = FALSE, !.refreshingRef = FALSE]
        ELSE s

\* useGoogleLogin onSuccess: the callback of the latest render runs
onSuccess(s0, access_token) ==
    LET s == Enter(s0, "onSuccess")
    IN  IF access_token # "" /\ mountedRef
        THEN LET s1 == IF s.authState.user # Null
                       THEN login(s, access_token, s.authState.user)
                       ELSE s
             IN  [s1 EXCEPT !.refreshing = FALSE, !.refreshingRef = FALSE]
        ELSE s

\* mutant: the error is reported but the session is not logged out
onError_noLogout(s0, message) ==
    LET s == Enter(s0, "onError")
    IN  IF mountedRef
        THEN [s EXCEPT !.authError =
                           IF includes(message, "popup") \/ includes(message, "blocked")
                           THEN MsgPopupBlocked
                           ELSE IF includes(message, "invalid_client")
                           THEN MsgInvalidClient
                           ELSE MsgAuthFailed,
                       !.refreshing = FALSE,
                       !.refreshingRef = FALSE]
        ELSE s

onError(s0, message) ==
    LET s == Enter(s0, "onError")
    IN  IF mountedRef
        THEN logout([s EXCEPT !.authError =
                                  IF includes(message, "popup") \/ includes(message, "blocked")
                                  THEN MsgPopupBlocked
                                  ELSE IF includes(message, "invalid_client")
                                  THEN MsgInvalidClient
                                  ELSE MsgAuthFailed,
                              !.refreshing = FALSE,
                              !.refreshingRef = FALSE])
        ELSE s

\* mutant: a valid stored token restores the session without a stored user
initAuth_ignoresUser(s0, gl) ==
    LET s == Enter(s0, "initAuth")
        storedUser == secureStorage_getItem(s.ls, "user")
        storedTokens == getStoredTokens(s.ls)
    IN  IF ~hasValidConfig THEN [s EXCEPT !.authError = MsgConfigMissing]
        ELSE IF storedTokens # Null /\ ~isTokenExpired(s.ls, storedTokens)
        THEN [s EXCEPT !.authState =
                  [user |-> storedUser,
                   tokens |-> AuthTokens(storedTokens.token, storedTokens.expiresAt),
                   isAuthenticated |-> TRUE]]
        ELSE IF storedUser # Null /\ storedTokens # Null
        THEN LET s1 == refreshAccessToken(s, "initAuth", gl)
             IN  IF mountedRef THEN logout(s1) ELSE s1
        ELSE s

initAuth(s0, gl) ==
    LET s == Enter(s0, "initAuth")
        storedUser == secureStorage_getItem(s.ls, "user")
        storedTokens == getStoredTokens(s.ls)
    IN  IF ~hasValidConfig THEN [s EXCEPT !.authError = MsgConfigMissing]
        ELSE IF storedUser # Null /\ storedTokens # Null
                /\ ~isTokenExpired(s.ls, storedTokens)
        THEN IF mountedRef
             THEN [s EXCEPT !.authState =
                       [user |-> storedUser,
                        tokens |-> AuthTokens(storedTokens.token, storedTokens.expiresAt),
                        isAuthenticated |-> TRUE]]
             ELSE s
        ELSE IF storedUser # Null /\ storedTokens # Null
                /\ isTokenExpired(s.ls, storedTokens)
        THEN LET s1 == refreshAccessToken(s, "initAuth", gl)
             IN  IF mountedRef THEN logout(s1) ELSE s1
        ELSE s

\* the effect that shows the configuration warning
configWarning(s) ==
    IF ~hasValidConfig /\ mountedRef
    THEN [s EXCEPT !.authError = MsgClientIdNotConfigured]
    ELSE s

\* the interval callback: it reads the authState of the render that set it up
tokenCheckInterval(s0, gl) ==
    LET s == Enter(s0, "tokenCheckInterval")
    IN  IF effectAuthState.isAuthenticated /\ isTokenExpired(s.ls, Null) /\ mountedRef
        THEN refreshAccessToken(s, "tokenCheckInterval", gl)
        ELSE s

(* ======================= AuthContext.tsx: useSecureApi ======================= *)
Max(a, b) == IF a >= b THEN a ELSE b

NoApi ==
    [ mounted |-> FALSE, isLoading |-> FALSE, error |-> NoError,
      pendingRequests |-> 0, pendingRef |-> 0,
      abortControllers |-> {}, requests |-> {} ]

FreshApi == [NoApi EXCEPT !.mounted = TRUE]

\* controller.abort() on the controller of request r
abort(r) == [r EXCEPT !.state = "aborted"]

\* mutant: the controllers are aborted but stay in the list
apiCleanup_keepsHandles(a) ==
    [a EXCEPT !.mounted = FALSE,
              !.requests = { IF r.id \in a.abortControllers THEN abort(r) ELSE r : r \in @ }]

\* the unmount cleanup: every controller of the list is aborted and the
\* list emptied
apiCleanup(a) ==
    [a EXCEPT !.mounted = FALSE,
              !.abortControllers = {},
              !.requests = { IF r.id \in a.abortControllers THEN abort(r) ELSE r : r \in @ }]

\* the first lines of fetchWithToken, up to the try block
fetchBegin(a_in, id) ==
    Once(a_in, LAMBDA a :
    [a EXCEPT !.abortControllers = @ \cup {id},
              !.isLoading = IF a.mounted THEN TRUE ELSE @,
              !.error = IF a.mounted THEN NoError ELSE @,
              !.pendingRef = @ + 1,
              !.pendingRequests = IF a.mounted THEN a.pendingRef + 1 ELSE @])

\* mutant: the error is reported also after the unmount cleanup
fetchCatch_unguarded(a, message) == [a EXCEPT !.error = message]

\* the catch block: message is the error that is reported
fetchCatch(a_in, message) ==
    Once(a_in, LAMBDA a :
    [a EXCEPT !.error = IF a.mounted THEN message ELSE @])

\* mutant: the loading indicator is cleared by every call that ends
fetchFinally_alwaysIdle(a, id) ==
    [a EXCEPT !.abortControllers = @ \ {id},
              !.requests = { r \in @ : r.id # id },
              !.pendingRef = Max(0, @ - 1),
              !.pendingRequests = IF a.mounted THEN Max(0, a.pendingRef - 1) ELSE @,
              !.isLoading = IF a.mounted THEN FALSE ELSE @]

\* the finally block
fetchFinally(a_in, id) ==
    Once(a_in, LAMBDA a :
    [a EXCEPT !.abortControllers = @ \ {id},
              !.requests = { r \in @ : r.id # id },
              !.pendingRef = Max(0, @ - 1),
              !.pendingRequests = IF a.mounted THEN Max(0, a.pendingRef - 1) ELSE @,
              !.isLoading = IF a.mounted /\ Max(0, a.pendingRef - 1) = 0 THEN FALSE ELSE @])

\* mutant: every error status logs out
fetchOnStatus_anyError(s, status) == IF status >= 400 THEN logout(s) ELSE s

\* the session after a response that is not ok: only 401 calls logout()
fetchOnStatus(s, status) == IF status = 401 THEN logout(s) ELSE s

\* the message thrown for a response that is not ok
statusMessage(status) ==
    IF status = 401 THEN MsgSessionExpired
    ELSE IF status = 403 THEN MsgForbidden
    ELSE IF status = 429 THEN MsgTooManyRequests
    ELSE MsgRequestFailed

(* ======================= LoginPage (part_004) ======================= *)
NoLoginPage ==
    [mounted |-> FALSE, isLoading |-> FALSE, error |-> NoError, popup |-> "none", token |-> ""]

FreshLoginPage == [NoLoginPage EXCEPT !.mounted = TRUE]

(* ======================= People API ======================= *)
\* A server answers page k of the connections list with that page's records
\* and, unless k is its last page, the continuation token of page k + 1.
NoToken == 0

\* a person of the connections list: emailAddresses holds the values of its
\* entries and is empty when the field is missing
Contact(id, email) ==
    [ resourceName |-> id,
      emailAddresses |-> IF email THEN << "someone@example.com" >> ELSE << >>,
      updatedAt |-> 0 ]

PageRecords(srv, k) ==
    CASE srv.shape = "full" -> IF k % 2 = 1 THEN << Contact(k, TRUE) >>
                               ELSE << Contact(k, TRUE), Contact(1000 + k, FALSE) >>
      [] srv.shape = "gaps" -> IF k % 3 = 0 THEN << >> ELSE << Contact(k, TRUE) >>
      [] srv.shape = "noemail" -> << Contact(k, FALSE) >>
      [] srv.shape = "second" -> << Contact(500 + k, TRUE) >>
      [] OTHER -> << >>

\* the body of a 200 answer to the connections request carrying token
PeopleConnections(srv, token) ==
    LET k == IF token = NoToken THEN 1 ELSE token
    IN  [ hasConnections |-> PageRecords(srv, k) # << >>,
          connections |-> PageRecords(srv, k),
          nextPageToken |-> IF srv.endless \/ k < srv.pages THEN k + 1 ELSE NoToken ]

\* the connections the People API holds for the account of the bearer
\* token, which is the account whose userinfo the login received with that
\* token: the second account has records of its own
Account(srv, user) ==
    IF user = Bob THEN [srv EXCEPT !.shape = "second"] ELSE srv

\* the body of a 200 answer to the contactGroups request
PeopleContactGroups == { [resourceName |-> "contactGroups/g1", name |-> "Friends"] }

Server(pages, endless, shape) == [pages |-> pages, endless |-> endless, shape |-> shape]

(* ======================= useContactsStorage (part_001) ======================= *)
MsgCorrupted == "Some contact data was corrupted and has been cleared. Syncing from server..."
MsgLoadFailed == "Failed to load contacts from local storage"
MsgNoContacts == "No contacts returned from API. Please try again later."
MsgSyncFailed == "Failed to load contacts. Please try again later."

\* values kept under the contact keys
ContactsValue(list) == [present |-> TRUE, list |-> list]
GroupsValue(map) == [present |-> TRUE, map |-> map]
ContactsMetadata(lastSyncTime, totalCount) ==
    [present |-> TRUE, lastSyncTime |-> lastSyncTime, totalCount |-> totalCount, version |-> 1]
LastSyncValue(timestamp) == [present |-> TRUE, contacts |-> timestamp]

\* secureStorage.preferences.saveLastSync
saveLastSync(ls, timestamp) ==
    secureStorage_setItem(ls, "user_pref_last_sync", LastSyncValue(timestamp))

\* The hook instance: its state, its refs and the fetchContacts executions
\* that are past their guards (runs).  A time of 0 is the null of the code.
\* touched: setContacts or setContactGroups was called since the last render.
\* failedAt: lastSyncAttempt of the last execution of this instance that failed.
\* done: the execution that ended in this step.
NoHook ==
    [ mounted |-> FALSE, contacts |-> << >>, contactGroups |-> {},
      isLoading |-> TRUE, isInitialized |-> FALSE, error |-> NoError,
      lastSyncTime |-> 0, lastSyncAttempt |-> 0,
      syncInProgress |-> FALSE, syncInProgressRef |-> FALSE,
      syncProgress |-> Null, syncError |-> FALSE,
      runs |-> << >>, touched |-> FALSE, failedAt |-> 0, done |-> Null ]

FreshHook == [NoHook EXCEPT !.mounted = TRUE]

\* the unmount cleanup
hookCleanup(h) == [h EXCEPT !.mounted = FALSE, !.syncInProgressRef = FALSE]

\* The handlers of the hook are operators on w = [s, a, h]: the session
\* record, the useSecureApi instance and the hook instance.
Log(w_in, name) ==
    Once(w_in, LAMBDA w :
    [w EXCEPT !.s = Enter(@, name)])

\* a state setter: React ignores it once the component is unmounted
SetState(w_in, h) ==
    Once(w_in, LAMBDA w :
    IF w.h.mounted THEN [w EXCEPT !.h = h] ELSE w)

\* a key whose raw text is there and decoded to nothing
undecodable(ls, key, stored) == stored = Null /\ ls[key].fmt # "absent"

hasCorruptedData(ls, storedContacts, storedGroups, metadata) ==
    \/ undecodable(ls, "google_contacts", storedContacts)
    \/ undecodable(ls, "google_contact_groups", storedGroups)
    \/ undecodable(ls, "google_contacts_metadata", metadata)

\* the try block of loadFromStorage from the three reads on: each decoded
\* value is put into the state as it is read, then the corruption check
loadFromStorage_read(w, storedContacts, storedGroups, metadata, corrupted) ==
    [ SetState(w,
        [w.h EXCEPT
           !.contacts = IF storedContacts # Null THEN storedContacts.list ELSE @,
           !.contactGroups = IF storedGroups # Null THEN storedGroups.map ELSE @,
           !.touched = @ \/ storedContacts # Null \/ storedGroups # Null,
           !.lastSyncTime = IF metadata # Null THEN metadata.lastSyncTime ELSE @,
           !.error = IF corrupted THEN MsgCorrupted ELSE @,
           !.isInitialized = TRUE,
           !.isLoading = IF storedContacts # Null /\ Len(storedContacts.list) > 0
                         THEN FALSE ELSE @])
        EXCEPT !.s.ls = IF corrupted THEN secureStorage_clearContactsData(@) ELSE @ ]

loadFromStorage_decoded(w, storedContacts, storedGroups, metadata) ==
    loadFromStorage_read(w, storedContacts, storedGroups, metadata,
                         hasCorruptedData(w.s.ls, storedContacts, storedGroups, metadata))

\* the catch block: localStorage.getItem throws after the first failed read
loadFromStorage_catch(w) ==
    [ SetState(w, [w.h EXCEPT !.error = MsgLoadFailed, !.isLoading = FALSE])
        EXCEPT !.s.ls = secureStorage_clearContactsData(@) ]

loadFromStorage_try(w) ==
    IF storageFails THEN loadFromStorage_catch(w)
    ELSE loadFromStorage_decoded(w, secureStorage_getItem(w.s.ls, "google_contacts"),
                                 secureStorage_getItem(w.s.ls, "google_contact_groups"),
                                 secureStorage_getItem(w.s.ls, "google_contacts_metadata"))

loadFromStorage(w) == loadFromStorage_try(Log(w, "loadFromStorage"))

\* saveToStorage(newContacts, newGroups) as fetchContacts calls it; run holds
\* the contacts and contactGroups of the render that created the callbacks
saveToStorage_groups(ls_in, run, newGroups) ==
    Once(ls_in, LAMBDA ls :
    IF newGroups # Null
    THEN secureStorage_setItem(ls, "google_contact_groups", GroupsValue(newGroups.map))
    ELSE IF run.contactGroups # {}
    THEN secureStorage_setItem(ls, "google_contact_groups", GroupsValue(run.contactGroups))
    ELSE ls)

\* totalCount: newContacts?.length || contacts.length
saveToStorage_totalCount(run, newContacts) ==
    IF Len(newContacts) # 0 THEN Len(newContacts) ELSE Len(run.contacts)

saveToStorage_writes(ls, run, newContacts, newGroups) ==
    saveLastSync(
        secureStorage_setItem(
            saveToStorage_groups(
                secureStorage_setItem(ls, "google_contacts", ContactsValue(newContacts)),
                run, newGroups),
            "google_contacts_metadata",
            ContactsMetadata(now, saveToStorage_totalCount(run, newContacts))),
        now)

saveToStorage(w_in, run, newContacts, newGroups) ==
    Once(w_in, LAMBDA w :
    [ SetState(w, [w.h EXCEPT !.lastSyncTime = now, !.syncError = FALSE])
        EXCEPT !.s.ls = saveToStorage_writes(@, run, newContacts, newGroups) ])

\* fetchWithToken as the hook calls it, up to the network request:
\* [w, id], id = 0 when it has already returned null
hookFetch_token(w_in, id, r_in, a_in) ==
    Once(w_in, LAMBDA w :
    Once(r_in, LAMBDA r :
    Once(a_in, LAMBDA a :
    IF r.token = ""
    THEN [ w |-> [w EXCEPT !.s = r.s,
                           !.a = fetchFinally(fetchCatch(a, MsgNotAuthenticated), id)],
           id |-> 0 ]
    ELSE [ w |-> [w EXCEPT !.s = Enter(r.s, "GET"),
                           !.a = [a EXCEPT !.requests =
                                    @ \cup {[id |-> id, token |-> r.token,
                                             state |-> "inflight"]}]],
           id |-> id ])))

hookFetch_begin(w_in, id, gl) ==
    Once(w_in, LAMBDA w :
    hookFetch_token(w, id, getAccessToken(w.s, gl), fetchBegin(w.a, id)))

hookFetch_call(w_in, gl) ==
    Once(w_in, LAMBDA w :
    hookFetch_begin(w, CHOOSE i \in 1..MaxConcurrent : \A r \in w.a.requests : r.id # i, gl))

hookFetch(w0, what, gl) == hookFetch_call(Log(w0, what), gl)

(* ---- one execution of fetchContacts past its guards ---- *)
\* The handlers below take the execution (run) out of h.runs, continue it up
\* to its next await and put it back with suspend, or end it with finish.
suspend(w_in, run) ==
    Once(w_in, LAMBDA w :
    [w EXCEPT !.h.runs = Append(@, run)])

\* mutant: the finally block resets the state but not the ref
finish_keepsFlag(w_in, run, outcome) ==
    Once(w_in, LAMBDA w :
    [ SetState(w, [w.h EXCEPT !.isLoading = FALSE, !.syncInProgress = FALSE,
                              !.syncProgress = Null])
        EXCEPT !.h.failedAt = IF outcome \in {"empty", "thrown"} THEN run.attempt
                              ELSE IF outcome = "saved" THEN 0 ELSE @,
               !.h.done = [ present |-> TRUE, outcome |-> outcome,
                            trigger |-> run.trigger, force |-> run.force,
                            requested |-> run.requested,
                            returned |-> run.allContacts,
                            before |-> run.contacts,
                            afterFailure |-> run.afterFailure,
                            flagAtStart |-> run.flagAtStart ]])

\* the finally block of fetchContacts; outcome is how the try block ended
finish(w_in, run, outcome) ==
    Once(w_in, LAMBDA w :
    [ SetState(w, [w.h EXCEPT !.isLoading = FALSE, !.syncInProgress = FALSE,
                              !.syncProgress = Null])
        EXCEPT !.h.syncInProgressRef = FALSE,
               !.h.failedAt = IF outcome \in {"empty", "thrown"} THEN run.attempt
                              ELSE IF outcome = "saved" THEN 0 ELSE @,
               !.h.done = [ present |-> TRUE, outcome |-> outcome,
                            trigger |-> run.trigger, force |-> run.force,
                            requested |-> run.requested,
                            returned |-> run.allContacts,
                            before |-> run.contacts,
                            afterFailure |-> run.afterFailure,
                            flagAtStart |-> run.flagAtStart ]])

\* contact => ({...contact, _localUpdatedAt: Date.now(), _isDirty: false})
stamp(list) == [i \in 1..Len(list) |-> [list[i] EXCEPT !.updatedAt = now]]

\* contact => contact.emailAddresses && contact.emailAddresses.length > 0
hasEmailAddresses(contact) == Len(contact.emailAddresses) > 0

\* fetchContacts after saveToStorage
afterPages_saved(w_in, run) ==
    Once(w_in, LAMBDA w :
    finish(SetState(w, [w.h EXCEPT !.error = NoError, !.syncError = FALSE]), run, "saved"))

\* setContacts(contactsWithEmail), then saveToStorage
afterPages_filtered(w_in, run, newContacts) ==
    Once(w_in, LAMBDA w :
    afterPages_saved(
        saveToStorage(SetState(w, [w.h EXCEPT !.contacts = newContacts, !.touched = TRUE]),
                      run, newContacts, run.groups),
        run))

\* fetchContacts after fetchAllContacts has returned allContacts
afterPages(w_in, run) ==
    Once(w_in, LAMBDA w :
    IF ~w.h.mounted THEN finish(w, run, "aborted")
    ELSE IF Len(run.allContacts) > 0
    THEN afterPages_filtered(w, run, stamp(SelectSeq(run.allContacts, hasEmailAddresses)))
    ELSE finish(SetState(w, [w.h EXCEPT !.error = MsgNoContacts, !.syncError = TRUE]),
                run, "empty"))

\* the catch block of fetchContacts after its metadata write
syncThrown_saved(w_in, run) ==
    Once(w_in, LAMBDA w :
    finish(SetState(w, [w.h EXCEPT !.lastSyncTime = now]), run, "thrown"))

\* fetchAllContacts threw: its catch block, then the catch block of fetchContacts
syncThrown(w_in, run) ==
    Once(w_in, LAMBDA w :
    syncThrown_saved(
        [ SetState(w, [w.h EXCEPT !.syncProgress = Null, !.error = MsgSyncFailed,
                                  !.syncError = TRUE])
            EXCEPT !.s.ls = secureStorage_setItem(@, "google_contacts_metadata",
                                                  ContactsMetadata(now, Len(run.contacts))) ],
        run))

\* fetchAllContacts after its loop
afterLoop(w_in, run) ==
    Once(w_in, LAMBDA w :
    afterPages(SetState(w, [w.h EXCEPT !.syncProgress = Null]), run))

\* mutant: every page is requested without a continuation token
pageRequest_noToken(w, run, gl) ==
    IF ~w.h.mounted THEN afterPages(w, run)
    ELSE LET r1 == [run EXCEPT !.pageCount = @ + 1, !.requested = Append(@, NoToken)]
             f == hookFetch(w, "fetchPage", gl)
         IN  IF f.id = 0 THEN syncThrown(f.w, r1)
             ELSE suspend(f.w, [r1 EXCEPT !.pc = "page", !.id = f.id])

\* the page request was made (f): a null answer before any request throws
pageRequest_sent(f_in, r1) ==
    Once(f_in, LAMBDA f :
    IF f.id = 0 THEN syncThrown(f.w, r1)
    ELSE suspend(f.w, [r1 EXCEPT !.pc = "page", !.id = f.id]))

\* one iteration of the loop of fetchAllContacts, up to the page request
pageRequest(w_in, run, gl) ==
    Once(w_in, LAMBDA w :
    IF ~w.h.mounted THEN afterPages(w, run)
    ELSE pageRequest_sent(hookFetch(w, "fetchPage", gl),
                          [run EXCEPT !.pageCount = @ + 1,
                                      !.requested = Append(@, run.nextPageToken)]))

\* mutant: the loop has no page limit
pageResponse_noLimit(w, run, response) ==
    LET all == IF response.hasConnections THEN run.allContacts \o response.connections
               ELSE run.allContacts
        w1 == IF response.hasConnections
              THEN SetState(w, [w.h EXCEPT !.syncProgress =
                       [present |-> TRUE, current |-> Len(all), total |-> 2 * Len(all)]])
              ELSE w
        r1 == [run EXCEPT !.allContacts = all, !.nextPageToken = response.nextPageToken,
                          !.id = 0]
    IN  IF r1.nextPageToken # NoToken /\ w.h.mounted
        THEN suspend(w1, [r1 EXCEPT !.pc = "delay"])
        ELSE afterLoop(w1, r1)

\* the rest of the iteration, from the response of the page request on
pageResponse(w_in, run, response) ==
    Once(w_in, LAMBDA w :
    LET all == IF response.hasConnections THEN run.allContacts \o response.connections
               ELSE run.allContacts
        w1 == IF response.hasConnections
              THEN SetState(w, [w.h EXCEPT !.syncProgress =
                       [present |-> TRUE, current |-> Len(all), total |-> 2 * Len(all)]])
              ELSE w
        r1 == [run EXCEPT !.allContacts = all, !.nextPageToken = response.nextPageToken,
                          !.id = 0]
    IN  IF r1.pageCount >= maxPages THEN afterLoop(w1, r1)
        ELSE IF r1.nextPageToken # NoToken /\ w.h.mounted
        THEN suspend(w1, [r1 EXCEPT !.pc = "delay"])
        ELSE afterLoop(w1, r1))

\* the loop condition after the 100 ms delay
afterDelay(w_in, run, gl) ==
    Once(w_in, LAMBDA w :
    IF run.nextPageToken # NoToken /\ w.h.mounted
    THEN pageRequest(w, run, gl)
    ELSE afterLoop(w, run))

\* fetchContacts after fetchContactGroups has returned groups
afterGroups(w_in, run, groups, gl) ==
    Once(w_in, LAMBDA w :
    LET r1 == [run EXCEPT !.groups = groups, !.id = 0]
    IN  IF ~w.h.mounted THEN finish(w, r1, "aborted")
        ELSE pageRequest(w, r1, gl))

\* fetchContactGroups from the result of its request on; ok: the result is not null
groupsResponse(w_in, run, ok, gl) ==
    Once(w_in, LAMBDA w :
    IF ok
    THEN afterGroups(SetState(w, [w.h EXCEPT !.contactGroups = PeopleContactGroups,
                                             !.touched = TRUE]),
                     run, GroupsValue(PeopleContactGroups), gl)
    ELSE afterGroups(w, run, Null, gl))

startGroups_sent(f_in, run, gl) ==
    Once(f_in, LAMBDA f :
    IF f.id = 0 THEN afterGroups(f.w, run, Null, gl)
    ELSE suspend(f.w, [run EXCEPT !.pc = "groups", !.id = f.id]))

\* fetchContactGroups(force) up to its request
startGroups(w_in, run, gl) ==
    Once(w_in, LAMBDA w :
    IF run.contactGroups # {} /\ ~run.force
    THEN afterGroups(w, run, GroupsValue(run.contactGroups), gl)
    ELSE startGroups_sent(hookFetch(w, "fetchGroups", gl), run, gl))

\* mutant: an error is never followed by a backoff
inBackoff_never(rd) == FALSE

\* the last attempt of render rd failed less than SYNC_ERROR_BACKOFF ago
inBackoff(rd) ==
    rd.syncError /\ rd.lastSyncAttempt # 0
        /\ now - rd.lastSyncAttempt < SYNC_ERROR_BACKOFF

\* the execution that fetchContacts starts; rd is the render whose callback runs
NewRun(w, rd, force, trigger) ==
    [ force |-> force, trigger |-> trigger, pc |-> "start", id |-> 0,
      groups |-> Null, allContacts |-> << >>, nextPageToken |-> NoToken,
      pageCount |-> 0, requested |-> << >>,
      contacts |-> rd.contacts, contactGroups |-> rd.contactGroups,
      attempt |-> now,
      afterFailure |-> w.h.failedAt # 0 /\ now - w.h.failedAt < SYNC_ERROR_BACKOFF,
      flagAtStart |-> w.h.syncError ]

\* mutant: the in-progress ref is not set
fetchContacts_noFlag(w0, rd, force, trigger, gl) ==
    LET w == Log(w0, "fetchContacts")
    IN  IF inBackoff(rd)
        THEN w
        ELSE IF Len(rd.contacts) > 0 /\ ~force
        THEN SetState(w, [w.h EXCEPT !.isLoading = FALSE])
        ELSE LET w1 == SetState(w, [w.h EXCEPT !.isLoading = TRUE, !.syncInProgress = TRUE,
                                               !.lastSyncAttempt = now, !.error = NoError])
             IN  startGroups(Log(w1, "syncStart"), NewRun(w, rd, force, trigger), gl)

\* fetchContacts past its guards, up to the first await
fetchContacts_start(w_in, rd, force, trigger, gl) ==
    Once(w_in, LAMBDA w :
    startGroups(
        Log([ SetState(w, [w.h EXCEPT !.isLoading = TRUE, !.syncInProgress = TRUE,
                                      !.lastSyncAttempt = now, !.error = NoError])
                EXCEPT !.h.syncInProgressRef = TRUE ],
            "syncStart"),
        NewRun(w, rd, force, trigger), gl))

\* mutant: cached contacts do not stop a call that is not forced
fetchContacts_guards_ignoresCache(w, rd, force, trigger, gl) ==
    IF w.h.syncInProgressRef THEN w
    ELSE IF inBackoff(rd)
    THEN w
    ELSE fetchContacts_start(w, rd, force, trigger, gl)

fetchContacts_guards(w_in, rd, force, trigger, gl) ==
    Once(w_in, LAMBDA w :
    IF w.h.syncInProgressRef THEN w
    ELSE IF inBackoff(rd)
    THEN w
    ELSE IF Len(rd.contacts) > 0 /\ ~force
    THEN SetState(w, [w.h EXCEPT !.isLoading = FALSE])
    ELSE fetchContacts_start(w, rd, force, trigger, gl))

\* fetchContacts(force) called through the callback of render rd
fetchContacts(w0, rd, force, trigger, gl) ==
    fetchContacts_guards(Log(w0, "fetchContacts"), rd, force, trigger, gl)

\* the effect "sync contacts if needed" as run after render rd
syncEffect(w_in, rd, gl) ==
    Once(w_in, LAMBDA w :
    IF rd.isInitialized /\ ~w.h.syncInProgressRef
    THEN IF rd.lastSyncTime = 0 \/ now - rd.lastSyncTime > SYNC_INTERVAL
            \/ Len(rd.contacts) = 0
         THEN fetchContacts(w, rd, Len(rd.contacts) = 0, "effect", gl)
         ELSE SetState(w, [w.h EXCEPT !.isLoading = FALSE])
    ELSE w)

\* the dependencies of that effect differ between two renders
depsChanged(rd, h) ==
    \/ h.touched
    \/ rd.isInitialized # h.isInitialized
    \/ rd.lastSyncTime # h.lastSyncTime
    \/ rd.lastSyncAttempt # h.lastSyncAttempt
    \/ rd.syncError # h.syncError

\* the page stays rendered after the state changes of this step
StaysRendered(w) ==
    phase = "mounted" /\ w.s.route = "/" /\ w.s.authState.isAuthenticated

\* React renders the changed state and runs the effects whose dependencies
\* changed, again until nothing changes; rd is the render before.
RECURSIVE Settle(_, _, _, _)
Settle(w_in, rd, gl, fuel) ==
    Once(w_in, LAMBDA w :
    IF ~w.h.mounted \/ ~StaysRendered(w) \/ fuel = 0 \/ ~depsChanged(rd, w.h)
    THEN [w EXCEPT !.h.touched = FALSE]
    ELSE LET r == [w.h EXCEPT !.touched = FALSE]
         IN  Settle(syncEffect([w EXCEPT !.h = r], r, gl), r, gl, fuel - 1))

\* the callback of the 5-minute interval set up after render rd
syncInterval(w0, rd, gl) ==
    LET w == Log(w0, "syncInterval")
    IN  IF ~w.h.syncInProgressRef /\ w.h.mounted
           /\ rd.lastSyncTime # 0 /\ now - rd.lastSyncTime > SYNC_INTERVAL
        THEN IF inBackoff(rd)
             THEN w
             ELSE fetchContacts(w, rd, FALSE, "interval", gl)
        ELSE w

\* mutant: the manual refresh does not look at the in-progress ref
refreshContacts_noGuard(w0, rd, gl) ==
    LET w == Log(w0, "refreshContacts")
        w1 == [w EXCEPT !.s.ls = secureStorage_clearContactsData(@)]
        w2 == SetState(w1, [w1.h EXCEPT !.contacts = << >>, !.contactGroups = {},
                                        !.touched = TRUE, !.syncError = FALSE])
    IN  fetchContacts(w2, rd, TRUE, "refresh", gl)

refreshContacts_purged(w, rd, gl) ==
    fetchContacts(SetState(w, [w.h EXCEPT !.contacts = << >>, !.contactGroups = {},
                                          !.touched = TRUE, !.syncError = FALSE]),
                  rd, TRUE, "refresh", gl)

refreshContacts_call(w, rd, gl) ==
    IF w.h.syncInProgressRef THEN w
    ELSE refreshContacts_purged([w EXCEPT !.s.ls = secureStorage_clearContactsData(@)],
                                rd, gl)

refreshContacts(w0, rd, gl) == refreshContacts_call(Log(w0, "refreshContacts"), rd, gl)

\* the effect that copies the error of useSecureApi
apiErrorEffect(w_in) ==
    Once(w_in, LAMBDA w :
    IF w.h.mounted /\ StaysRendered(w) /\ w.a.error # api.error /\ w.a.error # NoError
    THEN [w EXCEPT !.h.error = w.a.error]
    ELSE w)

\* getContactsWithEmail() of the render that shows the state h
getContactsWithEmail(h) == SelectSeq(h.contacts, hasEmailAddresses)

SYSTEM_GROUP_PREFIXES == { "contactGroups/myContacts", "contactGroups/starred" }

\* String.prototype.startsWith
startsWith(text, prefix) ==
    Len(text) >= Len(prefix) /\ SubSeq(text, 1, Len(prefix)) = prefix

\* the position of the first '/' of text at or after from, 0 when there is none
RECURSIVE slashFrom(_, _)
slashFrom(text, from) ==
    IF from > Len(text) THEN 0
    ELSE IF SubSeq(text, from, from) = "/" THEN from
    ELSE slashFrom(text, from + 1)

\* `Group ${groupResourceName.split('/')[1]}`
groupLabel(groupResourceName) ==
    LET first == slashFrom(groupResourceName, 1)
        second == slashFrom(groupResourceName, first + 1)
    IN  IF first = 0 THEN "Group undefined"
        ELSE "Group " \o SubSeq(groupResourceName, first + 1,
                                 IF second = 0 THEN Len(groupResourceName) ELSE second - 1)

\* the label pushed for one membership that passed the two tests
labelOf(h, groupResourceName) ==
    LET found == { g \in h.contactGroups : g.resourceName = groupResourceName }
    IN  IF found # {} /\ (CHOOSE g \in found : TRUE).name # ""
        THEN [name |-> (CHOOSE g \in found : TRUE).name, type |-> "group"]
        ELSE [name |-> groupLabel(groupResourceName), type |-> "group"]

\* the memberships that getContactLabels does not skip
labelled(membership) ==
    /\ membership.contactGroupMembership # Null
    /\ membership.contactGroupMembership.contactGroupResourceName # ""
    /\ \A prefix \in SYSTEM_GROUP_PREFIXES :
          ~startsWith(membership.contactGroupMembership.contactGroupResourceName, prefix)

\* mutant: a membership whose group is not in the map gets no label
getContactLabels_knownOnly(h, contact) ==
    IF "memberships" \notin DOMAIN contact THEN << >>
    ELSE LET kept == SelectSeq(contact.memberships,
                       LAMBDA m : labelled(m) /\ \E g \in h.contactGroups :
                          g.resourceName = m.contactGroupMembership.contactGroupResourceName)
         IN  [ i \in 1..Len(kept) |->
                 labelOf(h, kept[i].contactGroupMembership.contactGroupResourceName) ]

\* getContactLabels(contact) of the render that shows the state h
getContactLabels(h, contact) ==
    IF "memberships" \notin DOMAIN contact THEN << >>
    ELSE LET kept == SelectSeq(contact.memberships, labelled)
         IN  [ i \in 1..Len(kept) |->
                 labelOf(h, kept[i].contactGroupMembership.contactGroupResourceName) ]

(* ======================= steps ======================= *)
\* What rendering does after a step: the protected pages (and the fetch hook
\* they own) live only under "/" while authenticated, LoginPage only under "/login".
Render(s, a, lp, ph, h) ==
    /\ localStorage' = s.ls
    /\ authState' = s.authState
    /\ authError' = s.authError
    /\ refreshing' = s.refreshing
    /\ refreshingRef' = s.refreshingRef
    /\ popups' = s.popups
    /\ route' = s.route
    /\ calls' = s.calls
    /\ uncaught' = s.uncaught
    /\ phase' = ph
    /\ api' = IF a.mounted /\ ~(ph = "mounted" /\ s.route = "/" /\ s.authState.isAuthenticated)
              THEN apiCleanup(a) ELSE a
    /\ loginPage' = IF ph = "unmounted" \/ s.route # "/login" THEN NoLoginPage
                    ELSE IF route # "/login" THEN FreshLoginPage
                    ELSE lp
    /\ hook' = IF h.mounted /\ ~(ph = "mounted" /\ s.route = "/" /\ s.authState.isAuthenticated)
               THEN hookCleanup(h) ELSE h

\* a protected page and the hooks it owns are rendered only under "/" while
\* authenticated; Commit is Render for the steps that leave the hook alone
Commit(s, a, lp, ph) == Render(s, a, lp, ph, hook)

Step(op) == [op |-> op]

InitTokenData ==
    { TokenData("opaque-A", e) : e \in {FiveMinutes, 2 * FiveMinutes} }

InitSession ==
    /\ clientIdLength \in ClientIdLengths
    /\ now = 0
    /\ phase = "constructed"
    /\ localStorage \in [ user : {Absent, Enc(Alice)},
                          auth_tokens : {Absent} \cup { Enc(td) : td \in InitTokenData },
                          google_contacts : {Absent},
                          google_contact_groups : {Absent},
                          google_contacts_metadata : {Absent},
                          user_pref_last_sync : {Absent},
                          quota : {AmpleQuota} ]
    /\ authState = Unauthenticated
    /\ effectAuthState = authState
    /\ authError = NoError
    /\ refreshing = FALSE
    /\ refreshingRef = FALSE
    /\ mountedRef = TRUE
    /\ popups = << >>
    /\ route \in {"/", "/login"}
    /\ calls = << >>
    /\ uncaught = FALSE
    /\ loginPage = IF route = "/login" THEN FreshLoginPage ELSE NoLoginPage
    /\ api = NoApi
    /\ hook = NoHook
    /\ server = Server(1, FALSE, "full")
    /\ last = Step("init")

Init ==
    /\ storageFails = FALSE
    /\ InitSession

Fixed == UNCHANGED << clientIdLength, now, storageFails, effectAuthState, mountedRef, server >>

\* the mount effects of AuthProvider, in order
Mount ==
    /\ phase = "constructed"
    /\ \E gl \in GoogleLoginInputs :
          Commit(configWarning(initAuth(Cur, gl)), api, loginPage, "mounted")
    /\ last' = Step("mount")
    /\ Fixed

\* the cleanup of the mount effects
Unmount ==
    /\ phase = "mounted"
    /\ mountedRef' = FALSE
    /\ Commit(Cur, api, loginPage, "unmounted")
    /\ last' = Step("unmount")
    /\ UNCHANGED << clientIdLength, now, storageFails, effectAuthState, server >>

AdvanceTime ==
    /\ now < MaxTicks * FiveMinutes
    /\ now' = now + FiveMinutes
    /\ Commit(Cur, api, loginPage, phase)
    /\ last' = Step("time")
    /\ UNCHANGED << clientIdLength, storageFails, effectAuthState, mountedRef, server >>

\* the 5-minute interval fires (it is cleared at unmount)
TokenCheckTick ==
    /\ phase = "mounted"
    /\ \E gl \in GoogleLoginInputs :
          Commit(tokenCheckInterval(Cur, gl), api, loginPage, phase)
    /\ last' = Step("tokenCheckInterval")
    /\ Fixed

\* a refresh popup delivers a token response
RefreshPopupSuccess ==
    /\ popups # << >>
    /\ \E token \in TokenInputs :
          /\ Commit(onSuccess([Cur EXCEPT !.popups = Tail(@)], token),
                    api, loginPage, phase)
          /\ last' = [op |-> "onSuccess", caller |-> Head(popups), token |-> token]
    /\ Fixed

\* a refresh popup delivers an error response
RefreshPopupError ==
    /\ popups # << >>
    /\ \E message \in ErrorTexts :
          /\ Commit(onError([Cur EXCEPT !.popups = Tail(@)], message),
                    api, loginPage, phase)
          /\ last' = [op |-> "onError", caller |-> Head(popups), message |-> message,
                      wasAuthenticated |-> authState.isAuthenticated]
    /\ Fixed

\* a refresh popup is closed without a response: no callback runs
RefreshPopupAbandoned ==
    /\ popups # << >>
    /\ Commit([Cur EXCEPT !.popups = Tail(@)], api, loginPage, phase)
    /\ last' = Step("popupAbandoned")
    /\ Fixed

\* Layout: the logout button
HandleLogout ==
    /\ phase = "mounted" /\ route = "/" /\ authState.isAuthenticated
    /\ Commit(logout(Cur), api, loginPage, phase)
    /\ last' = Step("handleLogout")
    /\ Fixed

\* AuthGuard: verifyToken under an authenticated session
VerifyToken ==
    /\ phase = "mounted" /\ route = "/" /\ authState.isAuthenticated
    /\ \E gl \in GoogleLoginInputs :
          LET r == getAccessToken(Cur, gl)
          IN  /\ Commit(r.s, api, loginPage, phase)
              /\ last' = [op |-> "getAccessToken", token |-> r.token]
    /\ Fixed

\* AuthGuard: unauthenticated under a protected route
AuthGuardRedirect ==
    /\ phase = "mounted" /\ route = "/" /\ ~authState.isAuthenticated
    /\ Commit([Cur EXCEPT !.route = "/login"], api, loginPage, phase)
    /\ last' = Step("authGuardRedirect")
    /\ Fixed

\* LoginPage: authenticated under /login
LoginPageRedirect ==
    /\ phase = "mounted" /\ route = "/login" /\ authState.isAuthenticated
    /\ Commit([Cur EXCEPT !.route = "/"], api, loginPage, phase)
    /\ last' = Step("loginPageRedirect")
    /\ Fixed

\* LoginPage: handleLogin
HandleLogin ==
    /\ phase = "mounted" /\ loginPage.mounted /\ ~loginPage.isLoading
    /\ Commit(Cur, api,
              IF ~hasValidConfig
              THEN [loginPage EXCEPT !.error = MsgLoginPageNoClientId]
              ELSE [loginPage EXCEPT !.isLoading = TRUE, !.error = NoError,
                                     !.popup = "pending"],
              phase)
    /\ last' = Step("handleLogin")
    /\ Fixed

\* LoginPage: the popup delivers a token; the userinfo request is issued
LoginPopupSuccess ==
    /\ loginPage.popup = "pending"
    /\ \E token \in TokenInputs :
          Commit(Cur, api, [loginPage EXCEPT !.popup = "userinfo", !.token = token], phase)
    /\ last' = Step("loginPopupSuccess")
    /\ Fixed

\* LoginPage: the userinfo request ends; login() is called with its result
LoginUserInfo ==
    /\ loginPage.popup = "userinfo"
    /\ \E ok \in BOOLEAN, userInfo \in UserInputs \ {Null} :
          /\ Commit(IF ok THEN login(Cur, loginPage.token, userInfo) ELSE Cur,
                    api,
                    [loginPage EXCEPT !.popup = "none", !.token = "",
                                      !.isLoading = FALSE,
                                      !.error = IF ok THEN @ ELSE MsgLoginFailed],
                    phase)
          /\ last' = [op |-> IF ok THEN "login" ELSE "userinfoFailed",
                      token |-> loginPage.token, user |-> userInfo]
    /\ Fixed

\* LoginPage: the popup delivers an error
LoginPopupError ==
    /\ loginPage.popup = "pending"
    /\ \E message \in ErrorTexts :
          Commit(Cur, api,
                 [loginPage EXCEPT !.popup = "none", !.isLoading = FALSE,
                      !.error = IF includes(message, "popup") \/ includes(message, "blocked")
                                THEN MsgPopupBlocked
                                ELSE IF includes(message, "invalid_client")
                                THEN MsgInvalidClient
                                ELSE MsgLoginFailed],
                 phase)
    /\ last' = Step("loginPopupError")
    /\ Fixed

\* a protected page that owns a useSecureApi instance is rendered
ApiMount ==
    /\ phase = "mounted" /\ route = "/" /\ authState.isAuthenticated
    /\ ~api.mounted /\ api.requests = {}
    /\ Commit(Cur, FreshApi, loginPage, phase)
    /\ last' = Step("apiMount")
    /\ Fixed

\* that page is left
ApiUnmount ==
    /\ api.mounted
    /\ Commit(Cur, apiCleanup(api), loginPage, phase)
    /\ last' = Step("apiUnmount")
    /\ Fixed

\* fetchWithToken up to the network request; ids are drawn from 1..limit
FetchStartUpTo(limit) ==
    /\ \E gl \in GoogleLoginInputs :
          LET id == CHOOSE i \in 1..limit : \A r \in api.requests : r.id # i
              r == getAccessToken(Cur, gl)
              a == fetchBegin(api, id)
          IN  /\ Commit(r.s,
                        IF r.token = ""
                        THEN fetchFinally(fetchCatch(a, MsgNotAuthenticated), id)
                        ELSE [a EXCEPT !.requests =
                                 @ \cup {[id |-> id, token |-> r.token, state |-> "inflight"]}],
                        loginPage, phase)
              /\ last' = [op |-> "fetchStart", token |-> r.token,
                          error |-> IF r.token = "" THEN MsgNotAuthenticated ELSE NoError]
    /\ Fixed

FetchStart ==
    /\ api.mounted
    /\ Cardinality(api.requests) < MaxRequests
    /\ FetchStartUpTo(MaxRequests)

\* fetchWithToken from the response on
FetchResponse ==
    \E r \in api.requests, status \in Statuses :
        /\ r.state = "inflight"
        /\ Commit(IF status = 200 THEN Cur ELSE fetchOnStatus(Cur, status),
                  IF status = 200 THEN fetchFinally(api, r.id)
                  ELSE fetchFinally(fetchCatch(api, statusMessage(status)), r.id),
                  loginPage, phase)
        /\ last' = [op |-> "fetchResponse", status |-> status,
                    returnsNull |-> status # 200,
                    error |-> IF status = 200 THEN NoError ELSE statusMessage(status)]
        /\ Fixed

\* the 30-second timer aborts the request
FetchTimeout ==
    \E r \in api.requests :
        /\ r.state = "inflight"
        /\ Commit(Cur, fetchFinally(fetchCatch(api, MsgTimedOut), r.id), loginPage, phase)
        /\ last' = Step("fetchTimeout")
        /\ Fixed

\* a request aborted by the cleanup resumes in its catch block
FetchAborted ==
    \E r \in api.requests :
        /\ r.state = "aborted"
        /\ Commit(Cur, fetchFinally(fetchCatch(api, MsgTimedOut), r.id), loginPage, phase)
        /\ last' = Step("fetchAborted")
        /\ Fixed

\* several fetchWithToken calls of one page overlap
FetchStartConcurrent ==
    /\ api.mounted
    /\ Cardinality(api.requests) < MaxConcurrent
    /\ FetchStartUpTo(MaxConcurrent)

(* ======================= ContactsPage: useContactsStorage ======================= *)
World == [s |-> Cur, a |-> api, h |-> hook]

Remove(seq, i) == SubSeq(seq, 1, i - 1) \o SubSeq(seq, i + 1, Len(seq))

\* the end of a step of the hook: the remaining effect, then rendering
HookCommit(w0, op) ==
    \E w \in {apiErrorEffect(w0)} :
        /\ Render(w.s, w.a, loginPage, phase, [w.h EXCEPT !.done = Null])
        /\ last' = [op |-> op, done |-> w.h.done]

\* ContactsPage is rendered: the mount effects of both hooks, then the
\* effects of the render that shows what loadFromStorage has set
ContactsPageMount ==
    /\ phase = "mounted" /\ route = "/" /\ authState.isAuthenticated
    /\ ~hook.mounted /\ hook.runs = << >>
    /\ ~api.mounted /\ api.requests = {}
    /\ \E gl \in GoogleLoginInputs :
          HookCommit(Settle(loadFromStorage([s |-> Cur, a |-> FreshApi, h |-> FreshHook]),
                            FreshHook, gl, SettleDepth),
                     "contactsMount")
    /\ Fixed

\* ContactsPage is left: the cleanups of both hooks
ContactsPageUnmount ==
    /\ hook.mounted
    /\ HookCommit([s |-> Cur, a |-> apiCleanup(api), h |-> hookCleanup(hook)],
                  "contactsUnmount")
    /\ Fixed

SyncClock ==
    /\ now < SyncEpoch + MaxSyncTicks * FiveMinutes
    /\ now' = now + FiveMinutes
    /\ Commit(Cur, api, loginPage, phase)
    /\ last' = Step("time")
    /\ UNCHANGED << clientIdLength, storageFails, effectAuthState, mountedRef, server >>

\* the 5-minute interval of the hook fires
SyncIntervalTick ==
    /\ hook.mounted /\ hook.isInitialized
    /\ \E gl \in GoogleLoginInputs :
          HookCommit(Settle(syncInterval(World, hook, gl), hook, gl, SettleDepth),
                     "syncInterval")
    /\ Fixed

\* the refresh button of ContactsPage
RefreshContacts ==
    /\ hook.mounted
    /\ \E gl \in GoogleLoginInputs :
          HookCommit(Settle(refreshContacts(World, hook, gl), hook, gl, SettleDepth),
                     "refreshContacts")
    /\ Fixed

\* the request an execution awaits is answered: fetchWithToken from the
\* response on, then the execution up to its next await
SyncResponse ==
    \E i \in 1..Len(hook.runs), status \in Statuses, gl \in GoogleLoginInputs :
        LET run == hook.runs[i]
            w == [ s |-> IF status = 200 THEN Cur ELSE fetchOnStatus(Cur, status),
                   a |-> IF status = 200 THEN fetchFinally(api, run.id)
                         ELSE fetchFinally(fetchCatch(api, statusMessage(status)), run.id),
                   h |-> [hook EXCEPT !.runs = Remove(@, i)] ]
        IN  /\ run.pc \in {"groups", "page"}
            /\ \E r \in api.requests : r.id = run.id /\ r.state = "inflight"
            /\ HookCommit(
                 Settle(IF run.pc = "groups" THEN groupsResponse(w, run, status = 200, gl)
                        ELSE IF status = 200
                        THEN pageResponse(w, run,
                                 PeopleConnections(Account(server, authState.user),
                                                   run.requested[Len(run.requested)]))
                        ELSE syncThrown(w, run),
                        hook, gl, SettleDepth),
                 "syncResponse")
            /\ Fixed

\* the 30-second timer aborts the request an execution awaits
SyncTimeout ==
    \E i \in 1..Len(hook.runs), gl \in GoogleLoginInputs :
        LET run == hook.runs[i]
            w == [ s |-> Cur,
                   a |-> fetchFinally(fetchCatch(api, MsgTimedOut), run.id),
                   h |-> [hook EXCEPT !.runs = Remove(@, i)] ]
        IN  /\ run.pc \in {"groups", "page"}
            /\ \E r \in api.requests : r.id = run.id /\ r.state = "inflight"
            /\ HookCommit(
                 Settle(IF run.pc = "groups" THEN groupsResponse(w, run, FALSE, gl)
                        ELSE syncThrown(w, run),
                        hook, gl, SettleDepth),
                 "syncTimeout")
            /\ Fixed

\* a request aborted by the unmount cleanup ends; its execution resumes
SyncAborted ==
    \E i \in 1..Len(hook.runs), gl \in GoogleLoginInputs :
        LET run == hook.runs[i]
            w == [ s |-> Cur,
                   a |-> fetchFinally(fetchCatch(api, MsgTimedOut), run.id),
                   h |-> [hook EXCEPT !.runs = Remove(@, i)] ]
        IN  /\ run.pc \in {"groups", "page"}
            /\ \E r \in api.requests : r.id = run.id /\ r.state = "aborted"
            /\ HookCommit(IF run.pc = "groups" THEN groupsResponse(w, run, FALSE, gl)
                          ELSE syncThrown(w, run),
                          "syncAborted")
            /\ Fixed

\* the 100 ms delay between two pages is over
SyncNextPage ==
    \E i \in 1..Len(hook.runs), gl \in GoogleLoginInputs :
        LET run == hook.runs[i]
        IN  /\ run.pc = "delay"
            /\ HookCommit(
                 Settle(afterDelay([World EXCEPT !.h.runs = Remove(@, i)], run, gl),
                        hook, gl, SettleDepth),
                 "syncNextPage")
            /\ Fixed

Next ==
    \/ Mount
    \/ Unmount
    \/ AdvanceTime
    \/ TokenCheckTick
    \/ RefreshPopupSuccess
    \/ RefreshPopupError
    \/ RefreshPopupAbandoned
    \/ HandleLogout
    \/ VerifyToken
    \/ AuthGuardRedirect
    \/ LoginPageRedirect
    \/ HandleLogin
    \/ LoginPopupSuccess
    \/ LoginUserInfo
    \/ LoginPopupError
    \/ ApiMount
    \/ ApiUnmount
    \/ FetchStart
    \/ FetchResponse
    \/ FetchTimeout
    \/ FetchAborted

Spec == Init /\ [][Next]_vars

\* the same program in a browser whose localStorage may throw on every call
InitFaulty ==
    /\ storageFails \in BOOLEAN
    /\ InitSession

SpecFaulty == InitFaulty /\ [][Next]_vars

\* A page issuing concurrent requests under a restored session: the state
\* after Mount with Alice and an unexpired token persisted.
InitApi ==
    /\ clientIdLength = MinClientIdLength + 1
    /\ now = 0
    /\ storageFails = FALSE
    /\ phase = "mounted"
    /\ localStorage = [ user |-> Enc(Alice),
                        auth_tokens |-> Enc(TokenData("opaque-A", 2 * FiveMinutes)),
                        google_contacts |-> Absent,
                        google_contact_groups |-> Absent,
                        google_contacts_metadata |-> Absent,
                        user_pref_last_sync |-> Absent,
      quota |-> AmpleQuota ]
    /\ authState = [ user |-> Alice,
                     tokens |-> AuthTokens("opaque-A", 2 * FiveMinutes),
                     isAuthenticated |-> TRUE ]
    /\ effectAuthState = Unauthenticated
    /\ authError = NoError
    /\ refreshing = FALSE
    /\ refreshingRef = FALSE
    /\ mountedRef = TRUE
    /\ popups = << >>
    /\ route = "/"
    /\ calls = << "initAuth" >>
    /\ uncaught = FALSE
    /\ loginPage = NoLoginPage
    /\ api = NoApi
    /\ hook = NoHook
    /\ server = Server(1, FALSE, "full")
    /\ last = Step("mount")

NextApi ==
    \/ AdvanceTime
    \/ ApiMount
    \/ ApiUnmount
    \/ FetchStartConcurrent
    \/ FetchResponse
    \/ FetchTimeout
    \/ FetchAborted

SpecApi == InitApi /\ [][NextApi]_vars

\* ContactsPage under a restored session (Alice, a token that expires at
\* SyncEpoch + 25 min), against one People API server, with or without a cache
SessionAtSyncEpoch ==
    /\ clientIdLength = MinClientIdLength + 1
    /\ now = SyncEpoch
    /\ storageFails = FALSE
    /\ phase = "mounted"
    /\ authState = [ user |-> Alice,
                     tokens |-> AuthTokens("opaque-A", SyncEpoch + 5 * FiveMinutes),
                     isAuthenticated |-> TRUE ]
    /\ effectAuthState = Unauthenticated
    /\ authError = NoError
    /\ refreshing = FALSE
    /\ refreshingRef = FALSE
    /\ mountedRef = TRUE
    /\ popups = << >>
    /\ route = "/"
    /\ calls = << "initAuth" >>
    /\ uncaught = FALSE
    /\ loginPage = NoLoginPage
    /\ api = NoApi
    /\ hook = NoHook
    /\ last = Step("mount")

StoredAt(cached, meta) ==
    [ user |-> Enc(Alice),
      auth_tokens |-> Enc(TokenData("opaque-A", SyncEpoch + 5 * FiveMinutes)),
      google_contacts |-> IF cached THEN Enc(ContactsValue(OldContacts)) ELSE Absent,
      google_contact_groups |-> IF cached THEN Enc(GroupsValue(OldGroups)) ELSE Absent,
      google_contacts_metadata |->
          IF meta = 0 THEN Absent
          ELSE Enc(ContactsMetadata(meta, IF cached THEN Len(OldContacts) ELSE 0)),
      user_pref_last_sync |-> Absent,
      quota |-> AmpleQuota ]

InitContacts ==
    /\ SessionAtSyncEpoch
    /\ server \in { Server(1, FALSE, "full"), Server(2, FALSE, "full"),
                    Server(1, FALSE, "none") }
    /\ \E cached \in BOOLEAN,
          meta \in {0, SyncEpoch - 7 * FiveMinutes, SyncEpoch - 5 * FiveMinutes} :
          localStorage = StoredAt(cached, meta)

NextContacts ==
    \/ ContactsPageMount
    \/ ContactsPageUnmount
    \/ SyncClock
    \/ SyncIntervalTick
    \/ RefreshContacts
    \/ SyncResponse
    \/ SyncTimeout
    \/ SyncAborted
    \/ SyncNextPage

SpecContacts == InitContacts /\ [][NextContacts]_vars

\* one first sync against servers of every number of pages
InitPages ==
    /\ SessionAtSyncEpoch
    /\ server \in { Server(n, FALSE, "full") : n \in 1..MaxServerPages }
                  \cup { Server(1, TRUE, shape) : shape \in {"full", "gaps", "none"} }
    /\ localStorage = StoredAt(FALSE, 0)

NextPages ==
    \/ ContactsPageMount
    \/ SyncResponse
    \/ SyncNextPage

SpecPages == InitPages /\ [][NextPages]_vars

\* the hook is mounted over a store in which each contact entry is absent,
\* valid, or text that neither decrypts nor parses, against a server with
\* one page, two pages, or one page of records without an email address
ContactKeys == {"google_contacts", "google_contact_groups", "google_contacts_metadata"}

InitCache ==
    /\ SessionAtSyncEpoch
    /\ server \in { Server(1, FALSE, "full"), Server(2, FALSE, "full"),
                    Server(1, FALSE, "noemail") }
    /\ \E c \in {Absent, Garbage, Enc(ContactsValue(OldContacts))},
          g \in {Absent, Garbage, Enc(GroupsValue(OldGroups))},
          m \in {Absent, Garbage, Enc(ContactsMetadata(SyncEpoch - FiveMinutes, Len(OldContacts)))} :
          localStorage = [StoredAt(FALSE, 0) EXCEPT !.google_contacts = c,
                                                   !.google_contact_groups = g,
                                                   !.google_contacts_metadata = m]

NextCache ==
    \/ ContactsPageMount
    \/ SyncResponse
    \/ SyncNextPage
    \/ RefreshContacts

SpecCache == InitCache /\ [][NextCache]_vars

\* the variables of the application while only the store is exercised
Detached ==
    /\ clientIdLength = MinClientIdLength + 1
    /\ phase = "constructed"
    /\ authState = Unauthenticated
    /\ effectAuthState = Unauthenticated
    /\ authError = NoError
    /\ refreshing = FALSE
    /\ refreshingRef = FALSE
    /\ mountedRef = TRUE
    /\ popups = << >>
    /\ route = "/login"
    /\ calls = << >>
    /\ uncaught = FALSE
    /\ loginPage = NoLoginPage
    /\ api = NoApi
    /\ server = Server(1, FALSE, "full")

StaysDetached ==
    UNCHANGED << clientIdLength, now, storageFails, phase, authState, effectAuthState,
                 authError, refreshing, refreshingRef, mountedRef, popups, route,
                 calls, uncaught, loginPage, api, hook, server >>

\* tokens and bundles given to the token functions
TokenSamples == AccessTokens \cup {"jwt-zero", "jwt-none", ""}

BundleInputs ==
    { TokenData(token, expiresAt) :
        token \in {"opaque-A", ""},
        expiresAt \in { 0, now + expirationBuffer - 1, now + expirationBuffer,
                        now + expirationBuffer + 1, now + 3600 * 1000 } }

\* the last store(token) that no clear() has followed: what it was given,
\* what getTokenExpiration gave then, and whether the JSON text of the
\* bundle fitted into a storage area that accepts writes
NeverStored == [present |-> FALSE, cleared |-> FALSE]
Cleared == [present |-> FALSE, cleared |-> TRUE]

InitTokens ==
    /\ Detached
    /\ hook = NoHook
    /\ now = 0
    /\ storageFails \in BOOLEAN
    /\ \E e \in { Absent, Garbage, Enc(TokenData("opaque-A", 2 * FiveMinutes)),
                   Json(TokenData("jwt-B", FiveMinutes)), Enc(TokenData("", FiveMinutes)) },
          q \in {0, 1, 2, AmpleQuota} :
          /\ localStorage = [ user |-> Absent, auth_tokens |-> e,
                              google_contacts |-> Absent, google_contact_groups |-> Absent,
                              google_contacts_metadata |-> Absent,
                              user_pref_last_sync |-> Absent, quota |-> q ]
          /\ Used(localStorage) <= q
    /\ last = [op |-> "init", stored |-> NeverStored]

TokenFixed ==
    UNCHANGED << clientIdLength, storageFails, phase, authState, effectAuthState,
                 authError, refreshing, refreshingRef, mountedRef, popups, route,
                 calls, uncaught, loginPage, api, hook, server >>

TokenClock ==
    /\ now < MaxTokenTicks * FiveMinutes
    /\ now' = now + FiveMinutes
    /\ last' = [op |-> "time", stored |-> last.stored]
    /\ UNCHANGED localStorage
    /\ TokenFixed

TokenStore ==
    /\ \E token \in TokenSamples :
          /\ localStorage' = storeTokens(localStorage, token)
          /\ last' = [ op |-> "store", token |-> token,
                       stored |->
                         [ present |-> TRUE, cleared |-> FALSE, token |-> token,
                           expiresAt |-> getTokenExpiration(token),
                           fits |-> /\ ~storageFails
                                    /\ Used([localStorage EXCEPT !.auth_tokens = Absent])
                                         + Size(Json(TokenData(token, 0)))
                                           <= localStorage.quota ] ]
    /\ UNCHANGED now
    /\ TokenFixed

TokenLoad ==
    /\ last' = [ op |-> "load", bundle |-> getStoredTokens(localStorage),
                 stored |-> last.stored ]
    /\ UNCHANGED << now, localStorage >>
    /\ TokenFixed

TokenIsExpired ==
    /\ \E arg \in BundleInputs \cup {Null} :
          last' = [ op |-> "isExpired", arg |-> arg,
                    expired |-> isTokenExpired(localStorage, arg),
                    stored |-> last.stored ]
    /\ UNCHANGED << now, localStorage >>
    /\ TokenFixed

TokenExpiration ==
    /\ \E token \in TokenSamples :
          last' = [ op |-> "expirationOf", token |-> token,
                    expiresAt |-> getTokenExpiration(token),
                    stored |-> last.stored ]
    /\ UNCHANGED << now, localStorage >>
    /\ TokenFixed

TokenClear ==
    /\ localStorage' = clearTokens(localStorage).ls
    /\ last' = [op |-> "clear", stored |-> Cleared]
    /\ UNCHANGED now
    /\ TokenFixed

NextTokens ==
    \/ TokenClock
    \/ TokenStore
    \/ TokenLoad
    \/ TokenIsExpired
    \/ TokenExpiration
    \/ TokenClear

SpecTokens == InitTokens /\ [][NextTokens]_vars

\* keys and values given to the store
StoreKeys == {"user_pref_last_sync", "google_contacts", "google_contacts_metadata"}
StoreValues == { Null, LastSyncValue(SyncEpoch), ContactsValue(OldContacts) }

\* a storage area of MaxQuota units at most, holding cached contacts or not
InitStore ==
    /\ Detached
    /\ hook = NoHook
    /\ now = SyncEpoch
    /\ storageFails \in BOOLEAN
    /\ \E c \in {Absent, Garbage, Enc(ContactsValue(OldContacts))},
          g \in {Absent, Enc(GroupsValue(OldGroups))},
          p \in {Absent, Json(LastSyncValue(0))},
          q \in 0..MaxQuota :
          /\ localStorage = [ user |-> Absent, auth_tokens |-> Absent,
                              google_contacts |-> c, google_contact_groups |-> g,
                              google_contacts_metadata |-> Absent,
                              user_pref_last_sync |-> p, quota |-> q ]
          /\ Used(localStorage) <= q
    /\ last = Step("init")

StoreSet ==
    /\ \E key \in StoreKeys, value \in StoreValues :
          /\ localStorage' = secureStorage_setItem(localStorage, key, value)
          /\ last' = [ op |-> "set", key |-> key, value |-> value,
                       quotaError |-> localStorage_setItem(localStorage, key,
                                                           encryptData(value)).threw = "quota",
                       threw |-> secureStorage_setItem_throws(localStorage, key, value) ]
    /\ StaysDetached

StoreGet ==
    /\ \E key \in StoreKeys :
          last' = [ op |-> "get", key |-> key,
                    value |-> secureStorage_getItem(localStorage, key),
                    threw |-> secureStorage_getItem_throws(localStorage, key) ]
    /\ UNCHANGED localStorage
    /\ StaysDetached

StoreRemove ==
    /\ \E key \in StoreKeys :
          /\ localStorage' = secureStorage_removeItem(localStorage, key).ls
          /\ last' = [ op |-> "remove", key |-> key,
                       threw |-> secureStorage_removeItem(localStorage, key).threw ]
    /\ StaysDetached

StoreClear ==
    /\ localStorage' = secureStorage_clearContactsData(localStorage)
    /\ last' = [ op |-> "clear", threw |-> clearContactsData_throws(localStorage) ]
    /\ StaysDetached

NextStore ==
    \/ StoreSet
    \/ StoreGet
    \/ StoreRemove
    \/ StoreClear

SpecStore == InitStore /\ [][NextStore]_vars

\* memberships and contacts given to the query functions of the hook
Membership(groupResourceName) ==
    [ contactGroupMembership |->
        [present |-> TRUE, contactGroupResourceName |-> groupResourceName] ]

MembershipInputs ==
    { [contactGroupMembership |-> Null] }
      \cup { Membership(name) :
               name \in { "", "contactGroups/myContacts", "contactGroups/myContactsOld",
                          "contactGroups/starred", "contactGroups/g0", "contactGroups/g1",
                          "contactGroups/g9", "people" } }

RECURSIVE SeqsUpTo(_, _)
SeqsUpTo(S, n) ==
    IF n = 0 THEN { << >> }
    ELSE SeqsUpTo(S, n - 1)
           \cup { Append(q, x) : q \in { p \in SeqsUpTo(S, n - 1) : Len(p) = n - 1 }, x \in S }

LabelContacts ==
    { [resourceName |-> 1, emailAddresses |-> << >>, updatedAt |-> 0] }
      \cup { [resourceName |-> 1, emailAddresses |-> << >>, updatedAt |-> 0,
              memberships |-> ms] : ms \in SeqsUpTo(MembershipInputs, MaxMemberships) }

EmailInputs ==
    { << >>, << "" >>, << "someone@example.com" >>, << "", "someone@example.com" >> }

\* the hook as rendered with the given contacts and groups
Rendered(contacts, groups) ==
    [ FreshHook EXCEPT !.contacts = contacts, !.contactGroups = groups,
                       !.isInitialized = TRUE, !.isLoading = FALSE ]

InitEmails ==
    /\ Detached
    /\ now = SyncEpoch
    /\ storageFails = FALSE
    /\ localStorage = StoredAt(FALSE, 0)
    /\ \E emails \in SeqsUpTo(EmailInputs, MaxContacts) :
          hook = Rendered([ i \in 1..Len(emails) |->
                              [ resourceName |-> i, emailAddresses |-> emails[i],
                                updatedAt |-> 0 ] ],
                          PeopleContactGroups)
    /\ last = Step("init")

InitLabels ==
    /\ Detached
    /\ now = SyncEpoch
    /\ storageFails = FALSE
    /\ localStorage = StoredAt(FALSE, 0)
    /\ \E groups \in { {}, OldGroups \cup PeopleContactGroups,
                        { [resourceName |-> "contactGroups/g1", name |-> ""] } } :
          hook = Rendered(OldContacts, groups)
    /\ last = Step("init")

GetContactsWithEmail ==
    /\ last' = [op |-> "getContactsWithEmail", result |-> getContactsWithEmail(hook)]
    /\ UNCHANGED << localStorage, hook >>
    /\ StaysDetached

GetContactLabels ==
    /\ \E contact \in LabelContacts :
          last' = [ op |-> "getContactLabels", contact |-> contact,
                    result |-> getContactLabels(hook, contact) ]
    /\ UNCHANGED << localStorage, hook >>
    /\ StaysDetached

SpecEmails == InitEmails /\ [][GetContactsWithEmail]_vars

SpecLabels == InitLabels /\ [][GetContactLabels]_vars

(* ======================= properties ======================= *)
Called(name) == \E i \in 1..Len(calls) : calls[i] = name

PersistedAbsent ==
    localStorage.user = Absent /\ localStorage.auth_tokens = Absent

\* C1 (as stated): after every step in which logout() ran, the session is
\* Unauthenticated, the persisted 'user' and 'auth_tokens' entries are absent
\* and no exception escaped, also while every storage removal call throws.
C1_LogoutClearsStateAndStorage ==
    Called("logout") =>
        authState = Unauthenticated /\ PersistedAbsent /\ ~uncaught

\* C1 (amended): after every step in which logout() ran, the session is
\* Unauthenticated and no exception escaped, also while every storage removal
\* call throws; the persisted 'user' and 'auth_tokens' entries are absent
\* whenever the removal calls did not throw.
C1_LogoutAlwaysUnauthenticates ==
    Called("logout") =>
        /\ authState = Unauthenticated
        /\ ~uncaught
        /\ (~storageFails => PersistedAbsent)

\* C1 witness: the logout button was used on an authenticated session while
\* storage removal throws; the session is Unauthenticated, the entries remain.
C1_Witness ==
    /\ last.op = "handleLogout" /\ Called("logout") /\ storageFails
    /\ authState = Unauthenticated /\ ~PersistedAbsent

\* C2: a login() step with an empty token or a user without email leaves
\* authState and the persisted entries unchanged and leaves authError set to
\* a non-empty message.
C2_InvalidLoginChangesNothing ==
    [][ (last'.op = "login" /\ (last'.token = "" \/ last'.user = Null \/ last'.user.email = ""))
            => /\ authState' = authState
               /\ localStorage' = localStorage
               /\ authError' # NoError ]_vars

\* C2 witness: login() was called with an empty token and a valid user.
C2_Witness ==
    /\ last.op = "login" /\ last.token = "" /\ last.user = Alice
    /\ authError = MsgMissingToken /\ ~authState.isAuthenticated

\* C3: the mount step under a configured client id restores exactly the
\* persisted user, token and expiry when both entries are present and
\* now + 5 min < expiresAt, and stays Unauthenticated when either entry is
\* absent; in both cases no refresh popup is opened.
C3_MountRestoresSession ==
    [][ (last'.op = "mount" /\ clientIdLength > 10)
            => /\ (/\ localStorage.user # Absent
                   /\ localStorage.auth_tokens # Absent
                   /\ now + 5 * 60 * 1000 < localStorage.auth_tokens.data.expiresAt)
                     => /\ authState' =
                             [user |-> localStorage.user.data,
                              tokens |-> AuthTokens(localStorage.auth_tokens.data.token,
                                                    localStorage.auth_tokens.data.expiresAt),
                              isAuthenticated |-> TRUE]
                        /\ popups' = << >>
               /\ (localStorage.user = Absent \/ localStorage.auth_tokens = Absent)
                     => (authState' = Unauthenticated /\ popups' = << >>) ]_vars

\* C3 witness: the mount step restored Alice's session without a popup.
C3_Witness ==
    /\ last.op = "mount" /\ authState.isAuthenticated /\ authState.user = Alice
    /\ authState.tokens.expires_at = 2 * FiveMinutes /\ popups = << >>

\* C4: when the refresh popup opened by initialization delivers an access
\* token while mounted, the session is Authenticated with that token.
C4_InitRefreshSuccessAuthenticates ==
    (last.op = "onSuccess" /\ last.caller = "initAuth" /\ last.token # "" /\ mountedRef)
        => (authState.isAuthenticated /\ authState.tokens.access_token = last.token)

\* C5: at most one refresh popup is in flight at any time.
C5_SingleFlightRefresh == Len(popups) <= 1

\* C5 witness: getAccessToken called refreshAccessToken while the popup
\* opened by initialization was still in flight, and no second popup opened.
C5_Witness ==
    /\ last.op \in {"getAccessToken", "fetchStart"}
    /\ Called("refreshAccessToken")
    /\ popups = << "initAuth" >>

\* C6: getAccessToken returns the stored token without a refresh exactly
\* when a bundle is stored and not expired; a call that leaves a refresh
\* popup pending has not logged the session out.
C6_GetAccessTokenLogsOutOnlyOnFailure ==
    /\ (last.op = "getAccessToken" /\ last.token # "") => ~Called("refreshAccessToken")
    /\ (Called("getAccessToken") /\ popups # << >>) => ~Called("logout")

\* C7: a timer tick at which the session is Authenticated and the stored
\* token is expired (or within 5 minutes of expiry) calls refreshAccessToken.
C7_TickRefreshesExpiredToken ==
    [][ (/\ last'.op = "tokenCheckInterval"
         /\ mountedRef
         /\ authState.isAuthenticated
         /\ localStorage.auth_tokens # Absent
         /\ now + 5 * 60 * 1000 >= localStorage.auth_tokens.data.expiresAt)
            => \E i \in 1..Len(calls') : calls'[i] = "refreshAccessToken" ]_vars

\* C8: after the error callback of a refresh popup ran while mounted, the
\* session is Unauthenticated, the persisted entries are absent, the
\* refresh-in-flight flag is clear and authError is the popup-blocked message
\* if the text contains 'popup' or 'blocked', else the invalid-client message
\* if it contains 'invalid_client', else the generic message.
C8_RefreshFailureLogsOut ==
    (last.op = "onError" /\ mountedRef)
        => /\ authState = Unauthenticated
           /\ PersistedAbsent
           /\ ~refreshingRef
           /\ authError =
                 IF includes(last.message, "popup") \/ includes(last.message, "blocked")
                 THEN MsgPopupBlocked
                 ELSE IF includes(last.message, "invalid_client")
                 THEN MsgInvalidClient
                 ELSE MsgAuthFailed

\* C8 witness: the error callback ran on an authenticated session with a
\* text containing both 'popup' and 'invalid_client'.
C8_Witness ==
    /\ last.op = "onError" /\ mountedRef /\ last.wasAuthenticated
    /\ last.message = << "popup", "invalid_client" >>
    /\ authError = MsgPopupBlocked /\ authState = Unauthenticated

\* C9: with a client id of at most 10 characters, once the mount effects
\* ran authError is a configuration message, the session is Unauthenticated
\* and no refresh or login popup is open.
C9_NotConfiguredShortCircuits ==
    (clientIdLength <= 10 /\ phase # "constructed")
        => /\ authError \in {MsgConfigMissing, MsgClientIdNotConfigured}
           /\ authState = Unauthenticated
           /\ popups = << >>
           /\ loginPage.popup = "none"

\* C9 witness: handleLogin ran with a client id of exactly 10 characters.
C9_Witness ==
    /\ clientIdLength = 10 /\ last.op = "handleLogin"
    /\ loginPage.error = MsgLoginPageNoClientId /\ loginPage.popup = "none"

\* C10: a response that is not ok makes fetchWithToken report an error;
\* status 401 leaves the session Unauthenticated with the persisted entries
\* absent and the 'session expired' error, every other status leaves
\* authState and the persisted entries unchanged.
C10_OnlyUnauthorizedLogsOut ==
    [][ (last'.op = "fetchResponse" /\ last'.status # 200)
            => /\ last'.returnsNull
               /\ api'.error # NoError
               /\ (last'.status = 401
                     => /\ authState' = Unauthenticated
                        /\ localStorage'.user = Absent
                        /\ localStorage'.auth_tokens = Absent
                        /\ api'.error = MsgSessionExpired)
               /\ (last'.status # 401
                     => authState' = authState /\ localStorage' = localStorage) ]_vars

\* C10 witness: a 401 response logged the session out.
C10_Witness ==
    /\ last.op = "fetchResponse" /\ last.status = 401
    /\ authState = Unauthenticated /\ PersistedAbsent
    /\ api.error = MsgSessionExpired

\* C10 witness of the other branch: a 403 response left the session alone.
C10_WitnessForbidden ==
    /\ last.op = "fetchResponse" /\ last.status = 403
    /\ authState.isAuthenticated /\ api.error = MsgForbidden

\* C11: while the hook is mounted, the pending count (ref and state) equals
\* the number of fetchWithToken calls that began and have not reached the
\* end of their finally block, is never negative, and the loading indicator
\* is true exactly when that number is at least one.
C11_PendingCountMatchesInFlight ==
    api.mounted =>
        /\ api.pendingRef = Cardinality(api.requests)
        /\ api.pendingRequests = api.pendingRef
        /\ api.pendingRef >= 0
        /\ (api.isLoading <=> api.pendingRef >= 1)

\* C11 witness: of three overlapping calls one was ended by its timer; two
\* are outstanding and the indicator is still on.
C11_Witness ==
    /\ api.mounted /\ last.op = "fetchTimeout"
    /\ Cardinality(api.requests) = 2 /\ api.pendingRef = 2 /\ api.isLoading

\* C12: the error of the hook becomes 'timed out' only in a step in which
\* the 30-second timer of a request fired; a request aborted by the unmount
\* cleanup ends without changing the reported error.
C12_TimedOutOnlyByOwnTimer ==
    [][ /\ (last'.op = "fetchAborted" => api'.error = api.error)
        /\ ((api'.error = MsgTimedOut /\ api.error # MsgTimedOut)
               => last'.op = "fetchTimeout") ]_vars

\* C12 witness: a request aborted by the unmount cleanup has ended and no
\* error is reported.
C12_Witness ==
    /\ last.op = "fetchAborted" /\ ~api.mounted
    /\ api.requests = {} /\ api.error = NoError

(* ---- contacts ---- *)
\* the execution of fetchContacts that ended in the last step, if any
Done == IF "done" \in DOMAIN last THEN last.done ELSE Null

\* the tokens of the first n page requests against a server that is followed
ExpectedTokens(n) == [k \in 1..n |-> IF k = 1 THEN NoToken ELSE k]

\* the records of the first n pages of the server, in page order
RECURSIVE ServerRecords(_, _)
ServerRecords(srv, n) ==
    IF n = 0 THEN << >> ELSE ServerRecords(srv, n - 1) \o PageRecords(srv, n)

\* C13: against a server of n <= 100 pages, an execution has at most one
\* page request in flight, request k + 1 is made after response k has been
\* processed and carries the token of response k, and an execution whose
\* requests all succeeded has made exactly n page requests and returned the
\* records of the n pages in page order.
C13_PagesFetchedInOrder ==
    (~server.endless /\ server.pages <= maxPages) =>
        /\ Cardinality(api.requests) <= 1
        /\ \A i \in 1..Len(hook.runs) :
              LET run == hook.runs[i]
                  k == Len(run.requested)
              IN  /\ k <= server.pages
                  /\ run.requested = ExpectedTokens(k)
                  /\ run.pageCount = k
                  /\ run.pc = "groups" => k = 0
                  /\ run.pc = "page" => run.allContacts = ServerRecords(server, k - 1)
                  /\ run.pc = "delay" => /\ run.allContacts = ServerRecords(server, k)
                                         /\ api.requests = {}
        /\ (Done # Null /\ Done.outcome = "saved")
              => /\ Done.requested = ExpectedTokens(server.pages)
                 /\ Done.returned = ServerRecords(server, server.pages)

\* C13 witness: a sync against a server of 100 pages has ended after 100
\* page requests.
C13_Witness ==
    /\ server = Server(maxPages, FALSE, "full")
    /\ Done # Null /\ Done.outcome = "saved"
    /\ Len(Done.requested) = maxPages
    /\ Len(Done.returned) = 150

\* C14: whatever the server answers, an execution makes at most 100 page
\* requests and does not wait for a further page after the 100th response;
\* against a server that returns a token on every page, an execution whose
\* requests all succeeded has made exactly 100 page requests and returned
\* the records of those 100 pages.
C14_PaginationStopsAtMaxPages ==
    /\ \A i \in 1..Len(hook.runs) :
          /\ Len(hook.runs[i].requested) <= maxPages
          /\ hook.runs[i].pc = "delay" => hook.runs[i].pageCount < maxPages
    /\ Done # Null => Len(Done.requested) <= maxPages
    /\ (server.endless /\ Done # Null /\ Done.outcome \in {"saved", "empty"})
          => /\ Len(Done.requested) = maxPages
             /\ Done.returned = ServerRecords(server, maxPages)

\* C14 witness: a sync against a server that always returns a token, some
\* of its pages without records, has ended after 100 page requests.
C14_Witness ==
    /\ server = Server(1, TRUE, "gaps")
    /\ Done # Null /\ Done.outcome = "saved"
    /\ Len(Done.requested) = maxPages
    /\ Len(Done.returned) = 67

CalledIn(log, name) == \E i \in 1..Len(log) : log[i] = name

\* C15: a mounted hook never has two executions of fetchContacts past the
\* guards, and a periodic check or a manual refresh that arrives while one
\* is in flight calls neither fetchContacts nor fetchWithToken and leaves the
\* executions, the requests in flight and the persisted entries as they are.
C15_SingleFlightSync ==
    [][ /\ (hook'.mounted => Len(hook'.runs) <= 1)
        /\ ((hook.mounted /\ hook.runs # << >>
               /\ last'.op \in {"syncInterval", "refreshContacts"})
              => /\ ~CalledIn(calls', "syncStart")
                 /\ ~CalledIn(calls', "fetchGroups")
                 /\ ~CalledIn(calls', "fetchPage")
                 /\ hook'.runs = hook.runs
                 /\ api'.requests = api.requests
                 /\ localStorage' = localStorage) ]_vars

\* C15 witness: a manual refresh arrived while the sync started by the
\* initialization effect awaited its groups request, and was dropped.
C15_Witness ==
    /\ last.op = "refreshContacts" /\ hook.mounted
    /\ Called("refreshContacts") /\ ~Called("fetchContacts")
    /\ Len(hook.runs) = 1 /\ hook.runs[1].trigger = "effect" /\ hook.runs[1].pc = "groups"

\* the executions of fetchContacts in flight or ended in the last step
Executions ==
    { hook.runs[i] : i \in 1..Len(hook.runs) } \cup (IF Done # Null THEN {Done} ELSE {})

\* C16 (as stated): no execution of fetchContacts gets past the guards less
\* than 15 minutes after a failed attempt of the same hook instance.
C16_BackoffBlocksEveryCall ==
    \A run \in Executions : ~run.afterFailure

\* C16 (amended): no execution of fetchContacts gets past the guards less
\* than 15 minutes after a failed attempt of the same hook instance while
\* the sync-error flag that attempt set is still set.
C16_BackoffBlocksWhileErrorFlagged ==
    \A run \in Executions : ~(run.afterFailure /\ run.flagAtStart)

\* C16 witness: a sync ended with zero contacts and the call the effect made
\* right after it was stopped by the backoff.
C16_Witness ==
    /\ last.op = "syncResponse" /\ Done # Null /\ Done.outcome = "empty"
    /\ hook.mounted /\ hook.syncError /\ hook.failedAt = now
    /\ Len(calls) > 0 /\ calls[Len(calls)] = "fetchContacts"
    /\ hook.runs = << >>

\* C16 witness of the end of the backoff: 15 minutes after a failed attempt
\* the periodic check has started a sync although the flag is still set.
C16_WitnessAfterBackoff ==
    /\ last.op = "syncInterval" /\ Len(hook.runs) = 1
    /\ hook.runs[1].flagAtStart /\ ~hook.runs[1].afterFailure
    /\ hook.failedAt # 0 /\ now - hook.failedAt >= SYNC_ERROR_BACKOFF

\* C17 (as stated): after an execution of fetchContacts of a mounted hook
\* has ended in total failure, the contacts of the hook are those of the
\* render in which the execution was started.
C17_FailedSyncKeepsCache ==
    (Done # Null /\ Done.outcome \in {"empty", "thrown"} /\ hook.mounted)
        => hook.contacts = Done.before

\* C18 (as stated): after an execution of fetchContacts of a mounted hook
\* has ended in total failure, the sync-error flag is set and the persisted
\* metadata carries the time of this step.
C18_FailureSetsFlagAndMetadata ==
    (Done # Null /\ Done.outcome \in {"empty", "thrown"} /\ hook.mounted)
        => /\ hook.syncError
           /\ secureStorage_getItem(localStorage, "google_contacts_metadata") # Null
           /\ secureStorage_getItem(localStorage, "google_contacts_metadata").lastSyncTime = now

\* the persisted cache is empty or older than SYNC_INTERVAL
StaleOrEmptyCache ==
    LET storedContacts == secureStorage_getItem(localStorage, "google_contacts")
        metadata == secureStorage_getItem(localStorage, "google_contacts_metadata")
    IN  \/ storedContacts = Null
        \/ Len(storedContacts.list) = 0
        \/ (metadata # Null /\ now - metadata.lastSyncTime > SYNC_INTERVAL)

\* C19 (as stated): mounting the hook over an empty or stale cache starts a
\* sync, and so does every periodic check at which the last sync is more
\* than 30 minutes old, no backoff is active and no sync is in flight.
C19_StalenessStartsSync ==
    [][ /\ ((last'.op = "contactsMount" /\ StaleOrEmptyCache)
              => CalledIn(calls', "syncStart"))
        /\ ((last'.op = "syncInterval" /\ hook.mounted /\ hook.runs = << >>
               /\ hook.lastSyncTime # 0 /\ now - hook.lastSyncTime > SYNC_INTERVAL
               /\ ~inBackoff(hook))
              => CalledIn(calls', "syncStart")) ]_vars

\* the contact entries of the persisted store are absent
ContactsDataAbsent(ls) ==
    /\ ls.google_contacts = Absent
    /\ ls.google_contact_groups = Absent
    /\ ls.google_contacts_metadata = Absent

\* C20: a manual refresh with no sync in flight purges the persisted contact
\* entries and the contacts and groups of the hook and starts a forced sync
\* that calls fetchWithToken for the groups, also inside the backoff; the
\* step that ends the groups request of a forced sync calls fetchWithToken
\* for the first page; a manual refresh with a sync in flight changes
\* neither the persisted entries nor the hook and calls no fetchWithToken.
C20_RefreshPurgesThenRefetches ==
    [][ /\ ((last'.op = "refreshContacts" /\ hook.mounted /\ hook.runs = << >>)
              => /\ CalledIn(calls', "syncStart")
                 /\ CalledIn(calls', "fetchGroups")
                 /\ \/ /\ Len(hook'.runs) = 1
                       /\ hook'.runs[1].force /\ hook'.runs[1].pc = "groups"
                       /\ hook'.contacts = << >> /\ hook'.contactGroups = {}
                       /\ ContactsDataAbsent(localStorage')
                    \/ /\ hook'.runs = << >>
                       /\ last'.done # Null /\ last'.done.force
                       /\ CalledIn(calls', "fetchPage"))
        /\ ((last'.op \in {"syncResponse", "syncTimeout"} /\ Len(hook.runs) = 1
               /\ hook.runs[1].pc = "groups" /\ hook.runs[1].force)
              => CalledIn(calls', "fetchPage"))
        /\ ((last'.op = "refreshContacts" /\ hook.mounted /\ hook.runs # << >>)
              => /\ localStorage' = localStorage
                 /\ hook' = hook
                 /\ api' = api
                 /\ ~CalledIn(calls', "fetchGroups")
                 /\ ~CalledIn(calls', "fetchPage")) ]_vars

\* C20 witness: a manual refresh made less than 15 minutes after a failed
\* attempt, with contacts in the cache, has purged the cache and started a
\* forced sync.
C20_Witness ==
    /\ last.op = "refreshContacts" /\ hook.mounted
    /\ Len(hook.runs) = 1 /\ hook.runs[1].force /\ hook.runs[1].afterFailure
    /\ hook.contacts = << >> /\ ContactsDataAbsent(localStorage)
    /\ Called("GET")

\* some contact entry exists in raw storage and cannot be decoded
HasUndecodable(ls) ==
    \E key \in ContactKeys :
        ls[key].fmt # "absent" /\ secureStorage_getItem(ls, key) = Null

\* C21 (as stated): when the hook is mounted over a store in which a contact
\* entry exists and cannot be decoded, then afterwards the three contact
\* entries are absent, the corrupted-and-cleared message is set (or the sync
\* started in the same step has reset it), and the hook holds no contacts,
\* no groups and no last-sync time.
C21_CorruptionPurgesDataset ==
    [][ (last'.op = "contactsMount" /\ HasUndecodable(localStorage))
          => /\ ContactsDataAbsent(localStorage')
             /\ (hook'.error = MsgCorrupted \/ CalledIn(calls', "syncStart"))
             /\ hook'.contacts = << >>
             /\ hook'.contactGroups = {}
             /\ hook'.lastSyncTime = 0 ]_vars

(* ---- the store ---- *)

\* the entry under key cannot be read: absent, or neither ciphertext nor JSON
Unreadable(ls, key) ==
    storageFails \/ ls[key].fmt \in {"absent", "garbage"}

FitsAfterClear(ls, key, value) ==
    /\ ~storageFails
    /\ Used([secureStorage_clearContactsData(ls) EXCEPT ![key] = Absent])
          + Size(Json(value)) <= ls.quota

\* C26 (as stated): when the encrypted write of set(key, value) fails with a
\* quota error and the value fits once the contact entries are cleared, the
\* value is readable under key when set returns.
C26_QuotaClearsThenRetries ==
    [][ (last'.op = "set" /\ last'.quotaError
           /\ FitsAfterClear(localStorage, last'.key, last'.value))
          => secureStorage_getItem(localStorage', last'.key) = last'.value ]_vars

(* ---- the token functions ---- *)

\* the bundle that the 'auth_tokens' entry holds, if it can be read
PersistedBundle ==
    IF ~storageFails /\ localStorage.auth_tokens.fmt \in {"enc", "json"}
    THEN localStorage.auth_tokens.data
    ELSE Null

\* a bundle is expired under the 5-minute lookahead
ExpiredBundle(bundle) ==
    \/ bundle = Null
    \/ bundle.token = ""
    \/ now + 5 * 60 * 1000 >= bundle.expiresAt

\* C22: isExpired(bundle) is true exactly when the bundle has an empty token
\* or now + 5 minutes >= expiresAt, and isExpired() answers the same for the
\* persisted bundle, and true when none is persisted.
C22_IsExpiredLookahead ==
    last.op = "isExpired"
        => last.expired = ExpiredBundle(IF last.arg = Null THEN PersistedBundle
                                        ELSE last.arg)

\* C22 witness: a bundle that expires exactly 5 minutes from now is expired.
C22_Witness ==
    /\ last.op = "isExpired" /\ last.arg # Null /\ last.arg.token # ""
    /\ last.arg.expiresAt = now + 5 * 60 * 1000
    /\ last.expired

\* C23 (as stated): expirationOf(token) is exp * 1000 when the decoded token
\* carries an exp claim, 0 included, and now + 1 hour otherwise.
C23_ExpirationOfScalesExp ==
    last.op = "expirationOf"
        => IF jwtDecode(last.token).ok /\ jwtDecode(last.token).hasExp
           THEN last.expiresAt = jwtDecode(last.token).exp * 1000
           ELSE /\ last.expiresAt = now + 3600 * 1000
                /\ last.expiresAt >= now

\* what load() gives after a clear(): nothing, and isExpired() is true
AfterClearNothing ==
    /\ (last.op = "clear" => getStoredTokens(localStorage) = Null
                              /\ isTokenExpired(localStorage, Null))
    /\ (last.op = "load" /\ last.stored.cleared => last.bundle = Null)
    /\ (last.op = "isExpired" /\ last.stored.cleared /\ last.arg = Null => last.expired)

\* load() gives the token of the last store and the expiration computed then
LoadsWhatWasStored ==
    /\ last.bundle # Null
    /\ last.bundle.token = last.stored.token
    /\ last.bundle.expiresAt = last.stored.expiresAt

YieldsLabel(m) ==
    /\ m.contactGroupMembership # Null
    /\ m.contactGroupMembership.contactGroupResourceName
          \notin { "", "contactGroups/myContacts", "contactGroups/myContactsOld",
                   "contactGroups/starred" }

\* C27: getContactLabels returns one label of type 'group' per membership
\* that has the sub-field and a non-empty group name outside the two system
\* prefixes, in membership order; the label is the name the map gives the
\* group, and 'Group <id>' when the map does not hold the group.
C27_LabelsPerMembership ==
    last.op = "getContactLabels"
        => LET ms == IF "memberships" \in DOMAIN last.contact
                     THEN last.contact.memberships ELSE << >>
               kept == SelectSeq(ms, YieldsLabel)
               nameOf(i) == kept[i].contactGroupMembership.contactGroupResourceName
           IN  /\ Len(last.result) = Len(kept)
               /\ \A i \in 1..Len(kept) :
                     /\ last.result[i].type = "group"
                     /\ \A g \in hook.contactGroups :
                           (g.resourceName = nameOf(i) /\ g.name # "")
                               => last.result[i].name = g.name
                     /\ (\A g \in hook.contactGroups : g.resourceName # nameOf(i))
                           => last.result[i].name =
                                CASE nameOf(i) = "contactGroups/g0" -> "Group g0"
                                  [] nameOf(i) = "contactGroups/g1" -> "Group g1"
                                  [] nameOf(i) = "contactGroups/g9" -> "Group g9"
                                  [] OTHER -> "Group undefined"

\* C27 witness: a contact with a system membership and a membership of a
\* group the map does not hold got the one label 'Group g9'.
C27_Witness ==
    /\ last.op = "getContactLabels"
    /\ "memberships" \in DOMAIN last.contact
    /\ last.contact.memberships
          = << Membership("contactGroups/myContactsOld"), Membership("contactGroups/g9") >>
    /\ last.result = << [name |-> "Group g9", type |-> "group"] >>

\* C28 (as stated): getContactsWithEmail returns, in order, the contacts with
\* an emailAddresses entry whose value is not empty, and leaves the set.
C28_OnlyContactsWithEmail ==
    [][ last'.op = "getContactsWithEmail"
          => /\ last'.result =
                   SelectSeq(hook.contacts,
                             LAMBDA c : \E i \in 1..Len(c.emailAddresses) :
                                           c.emailAddresses[i] # "")
             /\ hook'.contacts = hook.contacts ]_vars

(* ---- the end of a sync ---- *)

\* C29 (as stated): after an execution of fetchContacts of a mounted hook
\* has ended in success, the contacts of the hook are the fetched records
\* that have an email address, stamped, the persisted 'google_contacts'
\* entry holds the same list, and the persisted totalCount is its length.
C29_SuccessReplacesAndPersists ==
    (Done # Null /\ Done.outcome = "saved" /\ hook.mounted)
        => /\ hook.contacts = stamp(SelectSeq(Done.returned, hasEmailAddresses))
           /\ secureStorage_getItem(localStorage, "google_contacts")
                 = ContactsValue(hook.contacts)
           /\ secureStorage_getItem(localStorage, "google_contacts_metadata") # Null
           /\ secureStorage_getItem(localStorage, "google_contacts_metadata").totalCount
                 = Len(hook.contacts)

\* C30 (as stated): the step that resumes fetchAllContacts after the hook
\* was torn down, whether its page request was cancelled or its delay has
\* elapsed, ends the execution by returning the records accumulated so
\* far, not by an error, and calls fetchWithToken for no further page.
C30_TeardownReturnsPartial ==
    [][ (~hook.mounted /\ Len(hook.runs) = 1 /\ hook.runs[1].pc \in {"page", "delay"}
           /\ last'.op \in {"syncAborted", "syncNextPage", "syncResponse", "syncTimeout"})
          => /\ last'.done # Null
             /\ last'.done.outcome = "aborted"
             /\ last'.done.returned = hook.runs[1].allContacts
             /\ ~CalledIn(calls', "fetchPage") ]_vars

(* ---- teardown ---- *)

\* the persisted contact data and metadata
PersistedContactData == [key \in ContactKeys |-> localStorage[key]]

\* the state of the hook that its consumers see
HookState(h) ==
    << h.contacts, h.contactGroups, h.error, h.syncError, h.lastSyncTime, h.syncProgress >>

\* the hook part: a step taken while the hook is torn down changes neither
\* the state of the hook nor the persisted contact entries
HookFrozenAfterTeardown ==
    (~hook.mounted /\ ~hook'.mounted)
        => /\ HookState(hook') = HookState(hook)
           /\ PersistedContactData' = PersistedContactData

\* the session part: no step after the provider was torn down changes the
\* session state or the error string
SessionFrozenAfterTeardown ==
    phase = "unmounted" => authState' = authState /\ authError' = authError

\* C31 (as stated): once the contacts component is torn down no later step
\* of an execution in flight changes its state or writes contact data or
\* metadata to the store, and once the session provider is torn down no
\* callback changes the session state or the error string.
C31_TeardownFreezesState ==
    [][HookFrozenAfterTeardown /\ SessionFrozenAfterTeardown]_vars

\* the session part of C31 on its own
C31_SessionPart == [][SessionFrozenAfterTeardown]_vars

(* ---- the cancellation handles of useSecureApi ---- *)

\* the ids of a set of requests
Ids(requests) == { r.id : r \in requests }

\* the requests that were started and have neither finished nor been cancelled
Unfinished(a) == { r \in a.requests : r.state = "inflight" }

\* C32: the list of cancellation handles holds exactly the handles of the
\* requests in flight; the teardown of the owner cancels every request that
\* has not finished and leaves the list empty; a request that finishes
\* (response, error, timeout or cancellation) takes exactly its own handle
\* out of the list (a 401 response also leaves the page, which is torn down
\* in the same step).
C32_HandlesMatchUnfinished ==
    [][ /\ api'.abortControllers = Ids(Unfinished(api'))
        /\ (api.mounted /\ ~api'.mounted)
              => /\ api'.abortControllers = {}
                 /\ \A r \in api'.requests : r.state = "aborted"
        /\ last'.op = "apiUnmount" => Ids(api'.requests) = Ids(api.requests)
        /\ last'.op \in {"fetchResponse", "fetchTimeout", "fetchAborted"}
              => \E r \in api.requests :
                    /\ Ids(api'.requests) = Ids(api.requests) \ {r.id}
                    /\ api'.mounted
                          => api'.abortControllers = api.abortControllers \ {r.id} ]_vars

\* the owner was torn down with two requests outstanding
C32_Witness ==
    /\ last.op = "apiUnmount"
    /\ Cardinality({ r \in api.requests : r.state = "aborted" }) >= 2
    /\ api.abortControllers = {}

\* one of several outstanding requests has finished
C32_WitnessFinished ==
    /\ last.op \in {"fetchResponse", "fetchTimeout"}
    /\ Cardinality(api.abortControllers) >= 1
    /\ api.mounted

(* ---- the guard on cached contacts ---- *)

\* w1 is w0 but for the loading flag and the log of calls: no request, no
\* execution started, the single-flight flag as it was, contacts, groups,
\* sync-error flag, last-attempt time and the persisted contact entries
\* untouched
NoWork(w0, w1) ==
    /\ w1.a = w0.a
    /\ w1.h.runs = w0.h.runs
    /\ w1.h.syncInProgressRef = w0.h.syncInProgressRef
    /\ w1.h.contacts = w0.h.contacts
    /\ w1.h.contactGroups = w0.h.contactGroups
    /\ w1.h.syncError = w0.h.syncError
    /\ w1.h.lastSyncAttempt = w0.h.lastSyncAttempt
    /\ \A key \in ContactKeys : w1.s.ls[key] = w0.s.ls[key]

\* C33: fetchContacts(false), called through the callback of a render that
\* shows a non-empty contact set, does no work; and the interval tick that
\* makes this call with contacts in memory issues no request, starts no
\* execution and leaves contacts, groups, the sync-error flag, the
\* last-attempt time, the single-flight flag and the persisted contact
\* entries as they were.
C33_CachedUnforcedIsNoop ==
    [][ /\ (hook.mounted /\ Len(hook.contacts) > 0)
              => \A gl \in GoogleLoginInputs :
                    NoWork(World, fetchContacts(World, hook, FALSE, "interval", gl))
        /\ (last'.op = "syncInterval" /\ CalledIn(calls', "fetchContacts")
              /\ Len(hook.contacts) > 0)
              => /\ ~CalledIn(calls', "GET")
                 /\ ~CalledIn(calls', "syncStart")
                 /\ api' = api
                 /\ hook'.runs = hook.runs
                 /\ hook'.syncInProgressRef = hook.syncInProgressRef
                 /\ hook'.contacts = hook.contacts
                 /\ hook'.contactGroups = hook.contactGroups
                 /\ hook'.syncError = hook.syncError
                 /\ hook'.lastSyncAttempt = hook.lastSyncAttempt
                 /\ PersistedContactData' = PersistedContactData ]_vars

\* the interval has called fetchContacts(false) over cached contacts that
\* are stale, with no sync in flight and outside the backoff
C33_Witness ==
    /\ last.op = "syncInterval"
    /\ CalledIn(calls, "fetchContacts")
    /\ hook.mounted /\ Len(hook.contacts) > 0
    /\ ~hook.syncInProgressRef
    /\ ~inBackoff(hook)

(* ---- the three fields of the session state ---- *)

\* C34: in every reachable session state isAuthenticated is true exactly
\* when a user is present, and a user is present exactly when tokens are
\* present, whatever sequence of mount, login, logout, refresh callbacks
\* and 401 responses led there.
C34_SessionFieldsAgree ==
    /\ authState.isAuthenticated <=> authState.user # Null
    /\ authState.user # Null <=> authState.tokens # Null

\* a session that was authenticated, was logged out by a 401 response and
\* has all three fields cleared
C34_Witness ==
    /\ last.op = "fetchResponse"
    /\ CalledIn(calls, "logout")
    /\ authState = Unauthenticated

\* a refresh callback has replaced the tokens of an authenticated session
C34_WitnessRefreshed ==
    /\ last.op = "onSuccess"
    /\ CalledIn(calls, "login")
    /\ authState.isAuthenticated /\ authState.user # Null /\ authState.tokens # Null

(* ---- session state and persisted session ---- *)

PersistedToken ==
    IF getStoredTokens(localStorage) = Null THEN ""
    ELSE getStoredTokens(localStorage).token

\* C35: while the provider is mounted and the storage works, after every
\* step an authenticated session has a persisted 'user' and a persisted
\* 'auth_tokens' whose token is the token of the session, and after a step
\* in which logout ran both entries are absent.
C35_SessionMatchesStorage ==
    (phase = "mounted" /\ ~storageFails)
        => /\ authState.isAuthenticated
                 => /\ localStorage.user # Absent
                    /\ localStorage.auth_tokens # Absent
                    /\ PersistedToken = authState.tokens.access_token
           /\ CalledIn(calls, "logout")
                 => /\ localStorage.user = Absent
                    /\ localStorage.auth_tokens = Absent

\* an interactive login has completed with working storage
C35_Witness ==
    /\ phase = "mounted" /\ ~storageFails
    /\ last.op = "login"
    /\ authState.isAuthenticated
    /\ PersistedToken = authState.tokens.access_token

\* a logout has completed with working storage
C35_WitnessLogout ==
    /\ phase = "mounted" /\ ~storageFails
    /\ last.op = "handleLogout"
    /\ localStorage.user = Absent /\ localStorage.auth_tokens = Absent

(* ---- the refresh single-flight flag ---- *)

\* every popup that was opened ends: with a token response, with an error
\* response, or closed without a response
PopupResolves ==
    \/ RefreshPopupSuccess
    \/ RefreshPopupError
    \/ RefreshPopupAbandoned

SpecRefresh == Init /\ [][Next]_vars /\ WF_vars(PopupResolves)

\* C36: under a mounted provider, once refreshAccessToken has taken the
\* single-flight flag, the flag is eventually cleared (or the provider is
\* unmounted), whatever the outcome of the popup.
C36_RefreshFlagEventuallyCleared ==
    (refreshingRef /\ phase = "mounted") ~> (~refreshingRef \/ phase # "mounted")

\* the popup has ended and the flag is still set under a mounted provider
RefreshFlagStuck ==
    /\ phase = "mounted"
    /\ refreshingRef
    /\ popups = << >>

\* the popup was closed without a response and the flag is still set
C36_StuckAfterAbandon ==
    RefreshFlagStuck /\ last.op = "popupAbandoned"

\* the popup answered without a token and the flag is still set
C36_StuckAfterEmptySuccess ==
    RefreshFlagStuck /\ last.op = "onSuccess" /\ last.token = ""

\* once the popup has ended with the flag set, no step clears the flag
C36_StuckForever ==
    [][(refreshingRef /\ popups = << >>) => refreshingRef']_vars

(* ---- logout against a refresh that is still under way ---- *)

\* the session as logout leaves it
LoggedOut ==
    /\ ~authState.isAuthenticated
    /\ localStorage.user = Absent
    /\ localStorage.auth_tokens = Absent

\* C37: a session that is logged out (state Unauthenticated, 'user' and
\* 'auth_tokens' absent) stays so over every step but a login from the login
\* view; in particular over the success callback of a refresh popup that was
\* opened before the logout.
C37_LogoutIsFinal ==
    [][(LoggedOut /\ last'.op # "login") => LoggedOut']_vars

\* the success callback of a refresh popup has run with a token after the
\* logout and the session is still logged out
C37_Witness ==
    /\ phase = "mounted"
    /\ last.op = "onSuccess" /\ last.token # ""
    /\ LoggedOut

(* ---- the token of a request ---- *)

\* the persisted token if it is not expired under the lookahead, else ""
UsableToken ==
    IF isTokenExpired(localStorage, Null) THEN "" ELSE PersistedToken

\* C38: every request that a step puts in flight bears the token that was
\* persisted and not expired under the five-minute lookahead when the step
\* began; and a fetchWithToken call made when no such token exists (none
\* persisted, expired, or logged out) issues no request, returns null and
\* reports 'Not authenticated'.
C38_RequestsBearUsableToken ==
    [][ /\ \A r \in api'.requests :
              (r \notin api.requests /\ r.state = "inflight")
                  => (r.token # "" /\ r.token = UsableToken)
        /\ last'.op = "fetchStart"
              => /\ last'.token = UsableToken
                 /\ UsableToken # ""
                       => \E r \in api'.requests :
                             /\ r.id \notin Ids(api.requests)
                             /\ r.token = UsableToken
                 /\ UsableToken = ""
                       => /\ Ids(api'.requests) \subseteq Ids(api.requests)
                          /\ last'.error = MsgNotAuthenticated
                          /\ api'.error = MsgNotAuthenticated ]_vars

\* a request is in flight with the persisted token
C38_Witness ==
    /\ last.op = "fetchStart"
    /\ last.token # ""
    /\ \E r \in api.requests : r.state = "inflight" /\ r.token = PersistedToken

\* a call found the persisted token expired and returned null
C38_WitnessExpired ==
    /\ last.op = "fetchStart"
    /\ last.token = ""
    /\ CalledIn(calls, "refreshAccessToken")
    /\ api.error = MsgNotAuthenticated

(* ---- two accounts, one browser ---- *)

\* the first account has synced nothing yet; logout, a login with either
\* token, and the contacts page for whoever is logged in
InitUsers ==
    /\ SessionAtSyncEpoch
    /\ server = Server(1, FALSE, "full")
    /\ localStorage = StoredAt(FALSE, 0)

NextUsers ==
    \/ ContactsPageMount
    \/ SyncResponse
    \/ SyncAborted
    \/ HandleLogout
    \/ HandleLogin
    \/ LoginPopupSuccess
    \/ LoginUserInfo

SpecUsers == InitUsers /\ [][NextUsers]_vars

\* the resource names of the connections of the account of a user
AccountNames(user) ==
    LET records == ServerRecords(Account(server, user), server.pages)
    IN  { records[i].resourceName : i \in 1..Len(records) }

\* C39: the contacts in memory under the session of a user are records of
\* that user's account: none of them was fetched with the token of another
\* account, whatever sequence of sync, logout and login led there.
C39_NoForeignContacts ==
    (hook.mounted /\ authState.isAuthenticated)
        => \A i \in 1..Len(hook.contacts) :
              hook.contacts[i].resourceName \in AccountNames(authState.user)

\* the second account is logged in and the page shows the records that its
\* own sync has fetched
C39_SecondAccountSynced ==
    /\ hook.mounted /\ authState.isAuthenticated
    /\ authState.user = Bob
    /\ Len(hook.contacts) > 0
    /\ \A i \in 1..Len(hook.contacts) :
          hook.contacts[i].resourceName \in AccountNames(Bob)

(* ---- the sync single-flight flag ---- *)

\* a request that is in flight or was cancelled ends: with a response, by
\* its timer, or as aborted
NetworkReturns ==
    \/ SyncResponse
    \/ SyncTimeout
    \/ SyncAborted

NextSync ==
    \/ ContactsPageMount
    \/ ContactsPageUnmount
    \/ SyncResponse
    \/ SyncTimeout
    \/ SyncAborted
    \/ SyncNextPage

\* every request ends and the timer of the delay between two pages fires
SpecSync ==
    /\ InitContacts
    /\ [][NextSync]_vars
    /\ WF_vars(NetworkReturns)
    /\ WF_vars(SyncNextPage)

\* C40: an execution of fetchContacts that has taken the single-flight flag
\* eventually ends and the flag is eventually released, on every exit path:
\* success, zero contacts, a thrown error, a teardown during the group
\* fetch or the pagination, a 401 logout during the pagination.
C40_SyncFlagEventuallyReleased ==
    /\ hook.syncInProgressRef ~> ~hook.syncInProgressRef
    /\ (hook.runs # << >>) ~> (hook.runs = << >>)

\* the flag is set only while an execution is under way
C40_FlagHeldByLiveExecution ==
    hook.syncInProgressRef => hook.runs # << >>

\* an execution has ended after the teardown and the flag is released
C40_Witness ==
    /\ last.op = "syncAborted"
    /\ Done # Null
    /\ ~hook.syncInProgressRef
    /\ hook.runs = << >>

\* an execution has ended with a saved dataset and the flag is released
C40_WitnessSaved ==
    /\ last.op = "syncResponse"
    /\ Done # Null /\ Done.outcome = "saved"
    /\ hook.mounted /\ ~hook.syncInProgressRef

====
